---- MODULE Spec2Model ----
(***************************************************************************)
(* State-machine model of the DHT20 sensor driver                          *)
(* (components/dht20_api/src/dht20_api.c): the frame decoder, the command  *)
(* sequences of the public API and the poll-with-timeout loop, run against *)
(* a nondeterministic I2C bus and a monotonic microsecond clock.           *)
(***************************************************************************)
EXTENDS Integers, Sequences, FiniteSets, TLC

\* ------------------------------------------------------------------------
\* Bounds of the model (not program constants)
\* ------------------------------------------------------------------------
\* largest timeout_ms a caller passes to the poll loop
MaxTimeoutMs == 2
\* longest time one I2C transaction may take, in microseconds
MaxBusUs == 1000
\* a new API call is started only while the clock is at most this (us)
MaxStartUs == 500

\* ------------------------------------------------------------------------
\* Program constants (dht20_api.c, #defines)
\* ------------------------------------------------------------------------
DHT20_CMD_SOFT_RESET == 186
DHT20_CMD_STATUS == 113
DHT20_CMD_TRIGGER == 172
DHT20_ARG_TRIGGER_1 == 51
DHT20_ARG_TRIGGER_2 == 0
DHT20_STATUS_BUSY_MASK == 128
DHT20_STATUS_CAL_MASK == 8
DHT20_CMD_INIT == 190
DHT20_ARG_INIT_1 == 8
DHT20_ARG_INIT_2 == 0
DHT20_DATA_LEN == 7
DHT20_STATUS_READY_DELAY_MS == 10
DHT20_SOFT_RESET_DELAY_MS == 20
DHT20_POWER_ON_DELAY_MS == 100
DHT20_I2C_ADDR_DEFAULT == 56
DHT20_I2C_TIMEOUT_MS == 20

\* ------------------------------------------------------------------------
\* C integer operators on non-negative integers
\* ------------------------------------------------------------------------
\* bitwise ^, & and | as recursive functions of the two operands
XorBits[a \in Nat, b \in Nat] ==
    IF a = 0 THEN b
    ELSE IF b = 0 THEN a
    ELSE (((a % 2) + (b % 2)) % 2) + 2 * XorBits[a \div 2, b \div 2]

AndBits[a \in Nat, b \in Nat] ==
    IF a = 0 \/ b = 0 THEN 0
    ELSE ((a % 2) * (b % 2)) + 2 * AndBits[a \div 2, b \div 2]

OrBits[a \in Nat, b \in Nat] ==
    IF a = 0 THEN b
    ELSE IF b = 0 THEN a
    ELSE (IF a % 2 = 1 \/ b % 2 = 1 THEN 1 ELSE 0) + 2 * OrBits[a \div 2, b \div 2]

BitXor(a, b) == XorBits[a, b]
BitAnd(a, b) == AndBits[a, b]
BitOr(a, b) == OrBits[a, b]

\* x << k and x >> k on uint32_t; the operands are bytes and k <= 16, so the
\* left shift never reaches bit 32 and nothing is cut off
Shl32(x, k) == x * (2 ^ k)
Shr32(x, k) == x \div (2 ^ k)

\* ------------------------------------------------------------------------
\* dht20_crc8: CRC-8, polynomial 0x31, initial value 0xFF, MSB first
\* ------------------------------------------------------------------------
\* faulty variant of Crc8Step: the polynomial is 0x07
Crc8Step_Poly07(crc) ==
    IF BitAnd(crc, 128) # 0
    THEN BitXor(crc * 2, 7) % 256
    ELSE (crc * 2) % 256

\* one pass of the inner loop body; crc is a uint8_t
Crc8Step(crc) ==
    IF BitAnd(crc, 128) # 0
    THEN BitXor(crc * 2, 49) % 256
    ELSE (crc * 2) % 256

\* the inner loop: for (bit = 0; bit < 8; bit++)
Crc8Bits[crc \in Nat, bit \in Nat] ==
    IF bit = 8 THEN crc ELSE Crc8Bits[Crc8Step(crc), bit + 1]

\* the inner loop's result for every value of crc ^ data[i], computed once
Crc8Byte == [c \in 0..255 |-> Crc8Bits[c, 0]]

\* the outer loop over data[0..len-1]; data is a 1-indexed sequence here
dht20_crc8(data, len) ==
    LET crc[i \in 0..len] ==
            IF i = 0 THEN 255
            ELSE Crc8Byte[BitXor(crc[i - 1], data[i])]
    IN  crc[len]

\* ------------------------------------------------------------------------
\* float (IEEE-754 binary32, round to nearest, ties to even)
\* ------------------------------------------------------------------------
\* A float is held as a signed integer: the bit pattern without the sign bit
\* for a value >= 0, its negation for a value < 0 (the two zeros are one).
\* The order of the finite values and the infinities is then the order of
\* the integers; a NaN is any magnitude above that of infinity.
F32_INF == 2139095040
F32_NAN == 2143289344

F32Abs(a) == IF a < 0 THEN 0 - a ELSE a
F32IsNaN(a) == F32Abs(a) > F32_INF
F32IsInf(a) == F32Abs(a) = F32_INF
\* isfinite()
F32IsFinite(a) == F32Abs(a) < F32_INF

\* the C comparisons <, >, <=: false whenever an operand is a NaN
F32Lt(a, b) == ~F32IsNaN(a) /\ ~F32IsNaN(b) /\ a < b
F32Gt(a, b) == ~F32IsNaN(a) /\ ~F32IsNaN(b) /\ a > b
F32Le(a, b) == ~F32IsNaN(a) /\ ~F32IsNaN(b) /\ a <= b

\* significand and exponent of a finite magnitude m: m is F32Sig * 2^F32Exp
F32Sig(m) == IF m < 8388608 THEN m ELSE 8388608 + (m % 8388608)
F32Exp(m) == IF m < 8388608 THEN 0 - 149 ELSE (m \div 8388608) - 150

\* the number of bits of n
BitLen[n \in Nat] == IF n = 0 THEN 0 ELSE 1 + BitLen[n \div 2]

\* The magnitude nearest to (hi * 2^24 + lo) * 2^ex, with lo < 2^24 and
\* hi < 2^28: k low bits are dropped so that 24 bits are left, or fewer
\* where the result is subnormal; what is dropped decides the rounding.
F32RoundPack[hi \in Nat, lo \in Nat, ex \in Int] ==
    LET len == IF hi > 0 THEN 24 + BitLen[hi] ELSE BitLen[lo]
        k   == IF len - 24 > (0 - 149) - ex THEN len - 24 ELSE (0 - 149) - ex
        q   == ex + k
        \* the bits kept
        kept == IF k > len THEN 0
                ELSE IF k <= 0 THEN lo * (2 ^ (0 - k))
                ELSE IF k <= 24 THEN hi * (2 ^ (24 - k)) + (lo \div (2 ^ k))
                ELSE hi \div (2 ^ (k - 24))
        \* the bits dropped against half of the last place kept: -1, 0, 1
        cmp == IF k > len \/ k <= 0 THEN 0 - 1
               ELSE IF k <= 24
               THEN (IF 2 * (lo % (2 ^ k)) > 2 ^ k THEN 1
                     ELSE IF 2 * (lo % (2 ^ k)) = 2 ^ k THEN 0 ELSE 0 - 1)
               ELSE (IF 2 * (hi % (2 ^ (k - 24))) > 2 ^ (k - 24) THEN 1
                     ELSE IF 2 * (hi % (2 ^ (k - 24))) < 2 ^ (k - 24) THEN 0 - 1
                     ELSE IF lo > 0 THEN 1 ELSE 0)
        up  == cmp = 1 \/ (cmp = 0 /\ kept % 2 = 1)
        mant == IF up THEN kept + 1 ELSE kept
    IN  IF hi = 0 /\ lo = 0 THEN 0
        ELSE IF q + 149 >= 255 THEN F32_INF
        ELSE IF (q + 149) * 8388608 + mant >= F32_INF THEN F32_INF
        ELSE (q + 149) * 8388608 + mant

\* the sign put back on a magnitude
F32Signed(neg, m) == IF neg /\ m # 0 THEN 0 - m ELSE m

\* the product of two significands below 2^24 as <<hi, lo>>, by 12-bit halves
SigProduct[x \in Nat, y \in Nat] ==
    LET x1 == x \div 4096
        x0 == x % 4096
        y1 == y \div 4096
        y0 == y % 4096
        mid == x1 * y0 + x0 * y1
        low == (mid % 4096) * 4096 + x0 * y0
    IN  <<x1 * y1 + (mid \div 4096) + (low \div 16777216), low % 16777216>>

\* a * b
F32Mul[a \in Int, b \in Int] ==
    LET ma == F32Abs(a)
        mb == F32Abs(b)
        neg == (a < 0) # (b < 0)
        p == SigProduct[F32Sig(ma), F32Sig(mb)]
    IN  IF F32IsNaN(a) \/ F32IsNaN(b) THEN F32_NAN
        ELSE IF ma = F32_INF \/ mb = F32_INF
        THEN (IF ma = 0 \/ mb = 0 THEN F32_NAN ELSE F32Signed(neg, F32_INF))
        ELSE IF ma = 0 \/ mb = 0 THEN 0
        ELSE F32Signed(neg, F32RoundPack[p[1], p[2], F32Exp(ma) + F32Exp(mb)])

\* big * 2^d + small or big * 2^d - small as <<hi, lo>>, 0 <= d <= 27
SigAlign[big \in Nat, d \in Nat, small \in Nat, minus \in BOOLEAN] ==
    LET hi == IF d <= 24 THEN big \div (2 ^ (24 - d)) ELSE big * (2 ^ (d - 24))
        lo == IF d <= 24 THEN (big % (2 ^ (24 - d))) * (2 ^ d) ELSE 0
        s  == IF minus THEN lo - small ELSE lo + small
    IN  IF s < 0 THEN <<hi - 1, s + 16777216>>
        ELSE IF s >= 16777216 THEN <<hi + 1, s - 16777216>>
        ELSE <<hi, s>>

\* the sum of two finite floats, x the one of the larger magnitude; an
\* operand more than 26 binary places below the other only tells which way
\* the sum is off x, so one unit 27 places down stands for it
F32AddFinite[x \in Int, y \in Int] ==
    LET mx == F32Abs(x)
        my == F32Abs(y)
        d  == F32Exp(mx) - F32Exp(my)
        far == d > 26
        n  == SigAlign[F32Sig(mx), IF far THEN 27 ELSE d,
                       IF far THEN 1 ELSE F32Sig(my), (x < 0) # (y < 0)]
    IN  IF my = 0 THEN x
        ELSE F32Signed(x < 0, F32RoundPack[n[1], n[2],
                              IF far THEN F32Exp(mx) - 27 ELSE F32Exp(my)])

\* a + b
F32Add[a \in Int, b \in Int] ==
    IF F32IsNaN(a) \/ F32IsNaN(b) THEN F32_NAN
    ELSE IF F32IsInf(a) /\ F32IsInf(b) THEN (IF a = b THEN a ELSE F32_NAN)
    ELSE IF F32IsInf(a) THEN a
    ELSE IF F32IsInf(b) THEN b
    ELSE IF F32Abs(a) >= F32Abs(b) THEN F32AddFinite[a, b]
    ELSE F32AddFinite[b, a]

\* a - b
F32Sub(a, b) == F32Add[a, 0 - b]

\* (float)n for an unsigned integer n
F32OfNat(n) == F32RoundPack[n \div 16777216, n % 16777216, 0]

\* a / 1048576.0f: the divisor is 2^20, so the quotient is the dividend with
\* its exponent lowered by 20, rounded where that makes it subnormal
F32DivBy1048576(a) ==
    IF F32IsNaN(a) THEN F32_NAN
    ELSE IF F32IsInf(a) THEN a
    ELSE F32Signed(a < 0, F32RoundPack[0, F32Sig(F32Abs(a)), F32Exp(F32Abs(a)) - 20])

\* the float literals of the program: 0.0f, 1.0f, 50.0f, 100.0f, 200.0f
F32_0 == 0
F32_1 == 1065353216
F32_50 == 1112014848
F32_100 == 1120403456
F32_200 == 1128792064

\* ((float)humidity_raw * 100.0f) / 1048576.0f
HumidityRh(humidity_raw) ==
    F32DivBy1048576(F32Mul[F32OfNat(humidity_raw), F32_100])

\* faulty variant of TemperatureC: the 50 degrees are not subtracted
TemperatureC_NoOffset(temperature_raw) ==
    F32DivBy1048576(F32Mul[F32OfNat(temperature_raw), F32_200])

\* ((float)temperature_raw * 200.0f) / 1048576.0f - 50.0f
TemperatureC(temperature_raw) ==
    F32Sub(F32DivBy1048576(F32Mul[F32OfNat(temperature_raw), F32_200]), F32_50)

\* ------------------------------------------------------------------------
\* dht20_parse_sample
\* ------------------------------------------------------------------------
\* raw[i] of the C code is r[i + 1] here
\* faulty variant of HumidityRaw: the low nibble of byte 3 is taken for the high one
HumidityRaw_LowNibble(r) ==
    BitOr(BitOr(Shl32(r[2], 12), Shl32(r[3], 4)), BitAnd(r[4], 15))

HumidityRaw(r) ==
    BitOr(BitOr(Shl32(r[2], 12), Shl32(r[3], 4)), Shr32(r[4], 4))

TemperatureRaw(r) ==
    BitOr(BitOr(Shl32(BitAnd(r[4], 15), 16), Shl32(r[5], 8)), r[6])

\* the sample the decoder writes on success, t the clock reading
ParsedSample(r, t) ==
    [timestamp_us    |-> t,
     humidity_raw    |-> HumidityRaw(r),
     temperature_raw |-> TemperatureRaw(r),
     humidity_rh     |-> HumidityRh(HumidityRaw(r)),
     temperature_c   |-> TemperatureC(TemperatureRaw(r))]

\* faulty variant of dht20_parse_sample: the checksum is tested before the busy bit
dht20_parse_sample_CrcFirst(r, s, t) ==
    IF dht20_crc8(r, DHT20_DATA_LEN - 1) # r[DHT20_DATA_LEN]
    THEN [err |-> "ESP_ERR_INVALID_CRC", sample |-> s]
    ELSE IF BitAnd(r[1], DHT20_STATUS_BUSY_MASK) # 0
    THEN [err |-> "ESP_ERR_INVALID_STATE", sample |-> s]
    ELSE [err |-> "ESP_OK", sample |-> ParsedSample(r, t)]

\* faulty variant of dht20_parse_sample: the checksum is not tested
dht20_parse_sample_NoCrc(r, s, t) ==
    IF BitAnd(r[1], DHT20_STATUS_BUSY_MASK) # 0
    THEN [err |-> "ESP_ERR_INVALID_STATE", sample |-> s]
    ELSE [err |-> "ESP_OK", sample |-> ParsedSample(r, t)]

\* faulty variant of dht20_parse_sample: the timestamp and the raw counts are stored
\* before the checksum is tested
dht20_parse_sample_EarlyStore(r, s, t) ==
    IF BitAnd(r[1], DHT20_STATUS_BUSY_MASK) # 0
    THEN [err |-> "ESP_ERR_INVALID_STATE", sample |-> s]
    ELSE IF dht20_crc8(r, DHT20_DATA_LEN - 1) # r[DHT20_DATA_LEN]
    THEN [err |-> "ESP_ERR_INVALID_CRC",
          sample |-> [s EXCEPT !.timestamp_us = t,
                               !.humidity_raw = HumidityRaw(r),
                               !.temperature_raw = TemperatureRaw(r)]]
    ELSE [err |-> "ESP_OK", sample |-> ParsedSample(r, t)]

\* faulty variant of dht20_parse_sample: the humidity count is or-ed into the
\* count the sample holds
dht20_parse_sample_OrInto(r, s, t) ==
    IF BitAnd(r[1], DHT20_STATUS_BUSY_MASK) # 0
    THEN [err |-> "ESP_ERR_INVALID_STATE", sample |-> s]
    ELSE IF dht20_crc8(r, DHT20_DATA_LEN - 1) # r[DHT20_DATA_LEN]
    THEN [err |-> "ESP_ERR_INVALID_CRC", sample |-> s]
    ELSE [err |-> "ESP_OK",
          sample |-> [ParsedSample(r, t) EXCEPT
                        !.humidity_raw = BitOr(s.humidity_raw, HumidityRaw(r)),
                        !.humidity_rh = HumidityRh(BitOr(s.humidity_raw,
                                                         HumidityRaw(r)))]]

\* the decoder's effect on the caller's sample s
dht20_parse_sample(r, s, t) ==
    IF BitAnd(r[1], DHT20_STATUS_BUSY_MASK) # 0
    THEN [err |-> "ESP_ERR_INVALID_STATE", sample |-> s]
    ELSE IF dht20_crc8(r, DHT20_DATA_LEN - 1) # r[DHT20_DATA_LEN]
    THEN [err |-> "ESP_ERR_INVALID_CRC", sample |-> s]
    ELSE [err |-> "ESP_OK", sample |-> ParsedSample(r, t)]

\* ------------------------------------------------------------------------
\* Environment: scheduler tick, I2C bus, frames on the wire
\* ------------------------------------------------------------------------
\* configTICK_RATE_HZ of the build, read by pdMS_TO_TICKS
TickRates == {1000, 500}

\* pdMS_TO_TICKS(ms) at tick rate hz: (ms * configTICK_RATE_HZ) / 1000
pdMS_TO_TICKS(ms, hz) == (ms * hz) \div 1000

\* microseconds the clock advances while vTaskDelay(ticks) blocks
DelayUs(ticks, hz) == ticks * (1000000 \div hz)

\* what i2c_master_write_to_device / i2c_master_read_from_device may return
\* besides ESP_OK. The driver passes the value on unchanged, so any esp_err_t
\* of the I2C layer can arrive: no acknowledge (ESP_FAIL), bus busy
\* (ESP_ERR_TIMEOUT), driver not installed (ESP_ERR_INVALID_STATE)
BusErrors == {"ESP_FAIL", "ESP_ERR_TIMEOUT", "ESP_ERR_INVALID_STATE"}
BusResults == {"ESP_OK"} \cup BusErrors

\* shortest time one I2C transaction takes, in microseconds
MinBusUs == 500
BusDurations == {MinBusUs, MaxBusUs}

\* a frame with the checksum the sensor computes over bytes 0..5
GoodFrame(b) == b \o <<dht20_crc8(b, 6)>>
\* the same frame with one bit of the checksum byte flipped on the wire
BadFrame(b) == b \o <<BitXor(dht20_crc8(b, 6), 1)>>

\* frames the bus delivers to the driver
WireFrames ==
    { GoodFrame(<<28, 102, 102, 102, 51, 51>>),
      GoodFrame(<<24, 128, 0, 5, 255, 255>>),
      BadFrame(<<28, 102, 102, 102, 51, 51>>),
      GoodFrame(<<152, 102, 102, 102, 51, 51>>),
      BadFrame(<<152, 0, 0, 0, 0, 0>>) }

\* status bytes the bus delivers to dht20_read_status
WireStatus == {24, 16, 152, 0}

\* ------------------------------------------------------------------------
\* State
\* ------------------------------------------------------------------------
VARIABLES
    tick_hz,            \* configTICK_RATE_HZ
    now,                \* esp_timer_get_time(), microseconds
    fn,                 \* the API function the caller is in, "none" outside
    pc,                 \* the next step of that function, "idle" outside
    dev,                \* dht20_t: the caller's device descriptor
    sample_ok,          \* the sample pointer of the call is not NULL
    timeout_ms,         \* argument of the poll loop
    poll_interval_ms,   \* argument of the poll loop
    conversion_wait_ms, \* argument of dht20_read
    start_us,           \* local of dht20_read_measurement_wait
    elapsed_us,         \* local of dht20_read_measurement_wait
    status,             \* local of dht20_init
    raw,                \* local of dht20_read_measurement
    sample,             \* dht20_sample_t: the caller's sample
    ret,                \* what the last call returned, "none" before any
    log,                \* history: bus transactions and sleeps of the call
    entry_sample,       \* history: the caller's sample when the call began
    err_src,            \* history: what produced ret: arg, bus, decode, poll
    read_us,            \* history: how long the last frame read took
    filter,             \* dht20_filter_t: the caller's filter
    filter_ok,          \* the filter pointer of the call is not NULL
    alpha,              \* argument of dht20_filter_init
    input,              \* *input of dht20_filter_apply
    input_ok,           \* the input pointer of the call is not NULL
    output,             \* *output of dht20_filter_apply
    output_ok,          \* the output pointer of the call is not NULL
    temperature_offset_c, \* argument of dht20_sample_apply_offset
    humidity_offset_rh, \* argument of dht20_sample_apply_offset
    n_calls,            \* history: calls of the post-processing API, or rounds
                        \* of the acquisition loop, so far
    entry_filter,       \* history: the caller's filter when the call began
    entry_output,       \* history: the caller's output when the call began
    last_input,         \* history: *input of the dht20_filter_apply before
    last_offset,        \* history: the dht20_sample_apply_offset call before
    twin,               \* history: a filter of the same alpha without the past
    app,                \* locals of app_main: the averaging window
    knob,               \* knob_t: the caller's rotary encoder object
    event,              \* knob_event_t: *event_out of knob_poll
    tick_count,         \* xTaskGetTickCount(), a 32-bit counter as two halves
    knob_hist           \* history: the lines read, the time really passed,
                        \* the button events accepted so far

\* the state of the rotary encoder and of its clock
knob_vars == <<knob, event, tick_count, knob_hist>>

vars == <<tick_hz, now, fn, pc, dev, sample_ok, timeout_ms, poll_interval_ms,
          conversion_wait_ms, start_us, elapsed_us, status, raw, sample, ret,
          log, entry_sample, err_src, read_us, filter, filter_ok, alpha,
          input, input_ok, output, output_ok, temperature_offset_c,
          humidity_offset_rh, n_calls, entry_filter, entry_output, last_input,
          last_offset, twin, app, knob_vars>>

\* the state outside the driver: offset, filter, their history, app_main
post_vars == <<filter, filter_ok, alpha, input, input_ok, output, output_ok,
               temperature_offset_c, humidity_offset_rh, n_calls, entry_filter,
               entry_output, last_input, last_offset, twin, app, knob_vars>>

\* dht20_sample_t sample = {0}
ZeroSample ==
    [timestamp_us |-> 0, humidity_raw |-> 0, temperature_raw |-> 0,
     humidity_rh |-> 0, temperature_c |-> 0]

\* dht20_t dht20 = {0}
ZeroDev == [i2c_port |-> 0, i2c_addr |-> 0, i2c_timeout_ms |-> 0]

\* uint8_t raw[DHT20_DATA_LEN] = {0}
ZeroRaw == <<0, 0, 0, 0, 0, 0, 0>>

\* dht20_filter_t filter = {0}
ZeroFilter ==
    [initialized |-> FALSE, alpha |-> 0, humidity_rh |-> 0, temperature_c |-> 0]

\* window_start_us and the sums and counters of app_main before the loop
ZeroWindow ==
    [window_start_us |-> 0, temperature_sum |-> 0, humidity_sum |-> 0,
     valid_samples |-> 0, error_samples |-> 0]

\* knob_t knob before knob_init, zero-filled
ZeroKnob ==
    [cfg |-> [enable_pullup |-> FALSE, button_active_low |-> FALSE,
              button_debounce_ms |-> <<0, 0>>],
     position |-> 0, step_acc |-> 0, last_ab |-> 0, last_sw_level |-> 0,
     last_sw_change_ms |-> <<0, 0>>, pressed_latched |-> FALSE,
     initialized |-> FALSE]

\* knob_event_t after memset(event_out, 0, sizeof(*event_out))
ZeroEvent ==
    [delta |-> 0, pressed |-> FALSE, released |-> FALSE, clicked |-> FALSE,
     position |-> 0]

\* nothing has been read, no time has passed, no button event was accepted
NoKnobHistory ==
    [raw_sw |-> 0, uptime_ms |-> 0, change_at_ms |-> 0, waited_ms |-> 0,
     last_button |-> "none", press_accepted |-> FALSE]

\* the rotary encoder before its first call
KnobIdle ==
    /\ knob = ZeroKnob
    /\ event = ZeroEvent
    /\ tick_count = <<0, 0>>
    /\ knob_hist = NoKnobHistory

\* no call of the post-processing stage has been made
NoOffsetCall == [temperature_offset_c |-> 0, humidity_offset_rh |-> 0,
                 applied |-> FALSE, before |-> ZeroSample]

\* the post-processing stage before its first call
PostIdle ==
    /\ filter = ZeroFilter
    /\ filter_ok = TRUE
    /\ alpha = 0
    /\ input = ZeroSample
    /\ input_ok = TRUE
    /\ output = ZeroSample
    /\ output_ok = TRUE
    /\ temperature_offset_c = 0
    /\ humidity_offset_rh = 0
    /\ n_calls = 0
    /\ entry_filter = ZeroFilter
    /\ entry_output = ZeroSample
    /\ last_input = ZeroSample
    /\ last_offset = NoOffsetCall
    /\ twin = ZeroFilter
    /\ app = ZeroWindow
    /\ KnobIdle

\* log entries
LogSleep(ticks) == [k |-> "sleep", arg |-> <<ticks>>, res |-> "ESP_OK", dec |-> "none"]
LogWrite(bytes, r) == [k |-> "write", arg |-> bytes, res |-> r, dec |-> "none"]
LogRead(n, r, d) == [k |-> "read", arg |-> <<n>>, res |-> r, dec |-> d]

\* ------------------------------------------------------------------------
\* Pieces of the driver's control flow
\* ------------------------------------------------------------------------
\* faulty variant of TriggerCmd: the last byte of the command is left out
TriggerCmd_Short == <<DHT20_CMD_TRIGGER, DHT20_ARG_TRIGGER_1>>

\* const uint8_t trigger_cmd[] (dht20_start_measurement)
TriggerCmd == <<DHT20_CMD_TRIGGER, DHT20_ARG_TRIGGER_1, DHT20_ARG_TRIGGER_2>>

\* const uint8_t init_cmd[] (dht20_init)
InitCmd == <<DHT20_CMD_INIT, DHT20_ARG_INIT_1, DHT20_ARG_INIT_2>>

\* faulty variant of NeedsCalibration: the test of the calibration bit is inverted
NeedsCalibration_Inverted(st) == BitAnd(st, DHT20_STATUS_CAL_MASK) # 0

\* (status & DHT20_STATUS_CAL_MASK) == 0
NeedsCalibration(st) == BitAnd(st, DHT20_STATUS_CAL_MASK) = 0

\* faulty variant of TimeoutUs: the milliseconds are not scaled to microseconds
TimeoutUs_NoScale(t_ms) == t_ms

\* timeout_us = (int64_t)timeout_ms * 1000LL
TimeoutUs(t_ms) == t_ms * 1000

\* poll_ticks = pdMS_TO_TICKS((poll_interval_ms == 0) ? 1 : poll_interval_ms)
PollTicks(i_ms, hz) == pdMS_TO_TICKS(IF i_ms = 0 THEN 1 ELSE i_ms, hz)

\* faulty variant of PollVerdict: the elapsed time is tested before the result
\* of the attempt
PollVerdict_TimeFirst(err, elapsed, t_us) ==
    IF elapsed >= t_us THEN "timeout"
    ELSE IF err = "ESP_OK" THEN "ok"
    ELSE IF err # "ESP_ERR_INVALID_STATE" THEN "error"
    ELSE "sleep"

\* faulty variant of PollVerdict: the loop gives up at the first NotReady
PollVerdict_GiveUp(err, elapsed, t_us) ==
    IF err = "ESP_OK" THEN "ok"
    ELSE IF err # "ESP_ERR_INVALID_STATE" THEN "error"
    ELSE "timeout"

\* what the poll loop does with the result of one read attempt
PollVerdict(err, elapsed, t_us) ==
    IF err = "ESP_OK" THEN "ok"
    ELSE IF err # "ESP_ERR_INVALID_STATE" THEN "error"
    ELSE IF elapsed >= t_us THEN "timeout"
    ELSE "sleep"

\* a call begins: arguments are bound, locals and the history start afresh
Begin(f, sok, t, i, c) ==
    /\ pc = "idle"
    /\ now <= MaxStartUs
    /\ fn' = f
    /\ sample_ok' = sok
    /\ timeout_ms' = t
    /\ poll_interval_ms' = i
    /\ conversion_wait_ms' = c
    /\ start_us' = 0
    /\ elapsed_us' = 0
    /\ status' = 0
    /\ raw' = ZeroRaw
    /\ read_us' = 0
    /\ log' = <<>>
    /\ entry_sample' = sample
    /\ UNCHANGED <<tick_hz, now, sample>>
    /\ UNCHANGED post_vars

\* the call returns r
Return(r, src) ==
    /\ pc' = "idle"
    /\ ret' = r
    /\ err_src' = src

\* the call goes on at label l
Goto(l) ==
    /\ pc' = l
    /\ ret' = "none"
    /\ err_src' = "none"

\* what a step inside a call never touches
Frame ==
    /\ UNCHANGED <<tick_hz, fn, dev, sample_ok, timeout_ms, poll_interval_ms,
                   conversion_wait_ms, entry_sample>>
    /\ UNCHANGED post_vars

\* vTaskDelay(pdMS_TO_TICKS(ms))
Sleep(ticks) ==
    /\ now' = now + DelayUs(ticks, tick_hz)
    /\ log' = Append(log, LogSleep(ticks))

\* ------------------------------------------------------------------------
\* dht20_init, dht20_soft_reset
\* ------------------------------------------------------------------------
dht20_init ==
    \E dev_ok \in BOOLEAN :
        /\ Begin("dht20_init", TRUE, 0, 0, 0)
        /\ IF ~dev_ok
           THEN Return("ESP_ERR_INVALID_ARG", "arg") /\ UNCHANGED dev
           ELSE /\ dev' = [i2c_port |-> 0, i2c_addr |-> DHT20_I2C_ADDR_DEFAULT,
                           i2c_timeout_ms |-> DHT20_I2C_TIMEOUT_MS]
                /\ Goto("init_poweron")

\* vTaskDelay(pdMS_TO_TICKS(DHT20_POWER_ON_DELAY_MS))
InitPowerOnDelay ==
    /\ pc = "init_poweron"
    /\ Sleep(pdMS_TO_TICKS(DHT20_POWER_ON_DELAY_MS, tick_hz))
    /\ Goto("reset_write")
    /\ Frame
    /\ UNCHANGED <<start_us, elapsed_us, status, raw, sample, read_us>>

dht20_soft_reset ==
    \E dev_ok \in BOOLEAN :
        /\ Begin("dht20_soft_reset", TRUE, 0, 0, 0)
        /\ UNCHANGED dev
        /\ IF ~dev_ok
           THEN Return("ESP_ERR_INVALID_ARG", "arg")
           ELSE Goto("reset_write")

\* dht20_write(dev, {DHT20_CMD_SOFT_RESET}, 1)
SoftResetWrite ==
    /\ pc = "reset_write"
    /\ \E d \in BusDurations, r \in BusResults :
        /\ now' = now + d
        /\ log' = Append(log, LogWrite(<<DHT20_CMD_SOFT_RESET>>, r))
        /\ IF r # "ESP_OK" THEN Return(r, "bus") ELSE Goto("reset_delay")
    /\ Frame
    /\ UNCHANGED <<start_us, elapsed_us, status, raw, sample, read_us>>

\* vTaskDelay(pdMS_TO_TICKS(DHT20_SOFT_RESET_DELAY_MS)); return ESP_OK
SoftResetDelay ==
    /\ pc = "reset_delay"
    /\ Sleep(pdMS_TO_TICKS(DHT20_SOFT_RESET_DELAY_MS, tick_hz))
    /\ IF fn = "dht20_init" THEN Goto("status_write") ELSE Return("ESP_OK", "none")
    /\ Frame
    /\ UNCHANGED <<start_us, elapsed_us, status, raw, sample, read_us>>

\* faulty variant of StatusWrite: the result of the write is not looked at
StatusWrite_IgnoreError ==
    /\ pc = "status_write"
    /\ \E d \in BusDurations, r \in BusResults :
        /\ now' = now + d
        /\ log' = Append(log, LogWrite(<<DHT20_CMD_STATUS>>, r))
        /\ Goto("status_read")
    /\ Frame
    /\ UNCHANGED <<start_us, elapsed_us, status, raw, sample, read_us>>

\* dht20_read_status: dht20_write(dev, {DHT20_CMD_STATUS}, 1)
StatusWrite ==
    /\ pc = "status_write"
    /\ \E d \in BusDurations, r \in BusResults :
        /\ now' = now + d
        /\ log' = Append(log, LogWrite(<<DHT20_CMD_STATUS>>, r))
        /\ IF r # "ESP_OK" THEN Return(r, "bus") ELSE Goto("status_read")
    /\ Frame
    /\ UNCHANGED <<start_us, elapsed_us, status, raw, sample, read_us>>

\* dht20_read_status: dht20_read_raw(dev, status, 1), then the calibration test
StatusRead ==
    /\ pc = "status_read"
    /\ \E d \in BusDurations, r \in BusResults, st \in WireStatus :
        /\ now' = now + d
        /\ log' = Append(log, LogRead(1, r, "none"))
        /\ status' = IF r = "ESP_OK" THEN st ELSE status
        /\ IF r # "ESP_OK" THEN Return(r, "bus")
           ELSE IF NeedsCalibration(st) THEN Goto("cal_write")
           ELSE Return("ESP_OK", "none")
    /\ Frame
    /\ UNCHANGED <<start_us, elapsed_us, raw, sample, read_us>>

\* dht20_write(dev, init_cmd, sizeof(init_cmd))
CalWrite ==
    /\ pc = "cal_write"
    /\ \E d \in BusDurations, r \in BusResults :
        /\ now' = now + d
        /\ log' = Append(log, LogWrite(InitCmd, r))
        /\ IF r # "ESP_OK" THEN Return(r, "bus") ELSE Goto("cal_delay")
    /\ Frame
    /\ UNCHANGED <<start_us, elapsed_us, status, raw, sample, read_us>>

\* vTaskDelay(pdMS_TO_TICKS(DHT20_STATUS_READY_DELAY_MS)); return ESP_OK
CalDelay ==
    /\ pc = "cal_delay"
    /\ Sleep(pdMS_TO_TICKS(DHT20_STATUS_READY_DELAY_MS, tick_hz))
    /\ Return("ESP_OK", "none")
    /\ Frame
    /\ UNCHANGED <<start_us, elapsed_us, status, raw, sample, read_us>>

\* ------------------------------------------------------------------------
\* dht20_start_measurement, dht20_read_oneshot, dht20_read
\* ------------------------------------------------------------------------
\* largest poll_interval_ms and conversion_wait_ms a caller passes
MaxPollMs == 2
MaxConvMs == 1

dht20_start_measurement ==
    \E dev_ok \in BOOLEAN :
        /\ Begin("dht20_start_measurement", TRUE, 0, 0, 0)
        /\ UNCHANGED dev
        /\ IF ~dev_ok
           THEN Return("ESP_ERR_INVALID_ARG", "arg")
           ELSE Goto("trig_write")

\* ESP_RETURN_ON_ERROR(dht20_start_measurement(dev), ...) comes first: the
\* sample pointer is looked at only by the functions called after it
dht20_read_oneshot ==
    \E dev_ok \in BOOLEAN, sok \in BOOLEAN,
       t \in 0..MaxTimeoutMs, i \in 0..MaxPollMs :
        /\ Begin("dht20_read_oneshot", sok, t, i, 0)
        /\ UNCHANGED dev
        /\ IF ~dev_ok
           THEN Return("ESP_ERR_INVALID_ARG", "arg")
           ELSE Goto("trig_write")

dht20_read ==
    \E dev_ok \in BOOLEAN, sok \in BOOLEAN, c \in 0..MaxConvMs :
        /\ Begin("dht20_read", sok, 0, 0, c)
        /\ UNCHANGED dev
        /\ IF ~dev_ok
           THEN Return("ESP_ERR_INVALID_ARG", "arg")
           ELSE Goto("trig_write")

\* faulty variant of AfterTrigger: dht20_read does not wait for the conversion
AfterTrigger_NoWait ==
    IF fn = "dht20_start_measurement" THEN "return"
    ELSE IF ~sample_ok THEN "invalid_arg"
    ELSE "meas_read"

\* where the caller of dht20_start_measurement goes on after ESP_OK
AfterTrigger ==
    IF fn = "dht20_start_measurement" THEN "return"
    ELSE IF fn = "dht20_read" /\ conversion_wait_ms > 0 THEN "conv_delay"
    ELSE IF ~sample_ok THEN "invalid_arg"
    ELSE "meas_read"

\* dht20_write(dev, trigger_cmd, sizeof(trigger_cmd)) and what follows it
\* up to the next bus transaction or sleep
TriggerWrite ==
    /\ pc = "trig_write"
    /\ \E d \in BusDurations, r \in BusResults :
        /\ now' = now + d
        /\ log' = Append(log, LogWrite(TriggerCmd, r))
        /\ IF r # "ESP_OK" THEN Return(r, "bus") /\ UNCHANGED start_us
           ELSE IF AfterTrigger = "return"
                THEN Return("ESP_OK", "none") /\ UNCHANGED start_us
           ELSE IF AfterTrigger = "invalid_arg"
                THEN Return("ESP_ERR_INVALID_ARG", "arg") /\ UNCHANGED start_us
           ELSE /\ Goto(AfterTrigger)
                \* dht20_read_measurement_wait: start_us = esp_timer_get_time()
                /\ start_us' = IF fn = "dht20_read_oneshot" THEN now + d ELSE start_us
    /\ Frame
    /\ UNCHANGED <<elapsed_us, status, raw, sample, read_us>>

\* vTaskDelay(pdMS_TO_TICKS(conversion_wait_ms)), then dht20_read_measurement
ConversionDelay ==
    /\ pc = "conv_delay"
    /\ Sleep(pdMS_TO_TICKS(conversion_wait_ms, tick_hz))
    /\ IF ~sample_ok THEN Return("ESP_ERR_INVALID_ARG", "arg") ELSE Goto("meas_read")
    /\ Frame
    /\ UNCHANGED <<start_us, elapsed_us, status, raw, sample, read_us>>

\* ------------------------------------------------------------------------
\* dht20_read_measurement, dht20_read_measurement_wait
\* ------------------------------------------------------------------------
dht20_read_measurement ==
    \E dev_ok \in BOOLEAN, sok \in BOOLEAN :
        /\ Begin("dht20_read_measurement", sok, 0, 0, 0)
        /\ UNCHANGED dev
        /\ IF ~dev_ok \/ ~sok
           THEN Return("ESP_ERR_INVALID_ARG", "arg")
           ELSE Goto("meas_read")

dht20_read_measurement_wait ==
    \E dev_ok \in BOOLEAN, sok \in BOOLEAN,
       t \in 0..MaxTimeoutMs, i \in 0..MaxPollMs :
        /\ pc = "idle"
        /\ now <= MaxStartUs
        /\ fn' = "dht20_read_measurement_wait"
        /\ sample_ok' = sok
        /\ timeout_ms' = t
        /\ poll_interval_ms' = i
        /\ conversion_wait_ms' = 0
        \* start_us = esp_timer_get_time()
        /\ start_us' = IF dev_ok /\ sok THEN now ELSE 0
        /\ elapsed_us' = 0
        /\ status' = 0
        /\ raw' = ZeroRaw
        /\ read_us' = 0
        /\ log' = <<>>
        /\ entry_sample' = sample
        /\ UNCHANGED <<tick_hz, now, sample, dev>>
        /\ UNCHANGED post_vars
        /\ IF ~dev_ok \/ ~sok
           THEN Return("ESP_ERR_INVALID_ARG", "arg")
           ELSE Goto("meas_read")

\* one read attempt: what dht20_read_measurement returns and leaves in the
\* caller's sample, r the result of dht20_read_raw(dev, raw, 7) and p that
\* of dht20_parse_sample on the bytes read
ReadAttempt(r, p) ==
    IF r # "ESP_OK"
    THEN [err |-> r, src |-> "bus", dec |-> "none", sample |-> sample]
    ELSE [err    |-> p.err,
          src    |-> IF p.err = "ESP_OK" THEN "none" ELSE "decode",
          dec    |-> p.err,
          sample |-> p.sample]

\* dht20_read_measurement, and in the poll loop what follows it up to the
\* return or the sleep
MeasRead ==
    /\ pc = "meas_read"
    /\ \E d \in BusDurations, r \in BusResults, f \in WireFrames :
       \E a \in {ReadAttempt(r, dht20_parse_sample(f, sample, now + d))} :
       \E v \in {PollVerdict(a.err, (now + d) - start_us, TimeoutUs(timeout_ms))} :
            /\ now' = now + d
            /\ read_us' = d
            /\ raw' = IF r = "ESP_OK" THEN f ELSE raw
            /\ sample' = a.sample
            /\ log' = Append(log, LogRead(DHT20_DATA_LEN, r, a.dec))
            /\ IF fn \notin {"dht20_read_measurement_wait", "dht20_read_oneshot"}
               THEN Return(a.err, a.src) /\ UNCHANGED elapsed_us
               ELSE IF v \in {"ok", "error"}
               THEN Return(a.err, a.src) /\ UNCHANGED elapsed_us
               ELSE IF v = "timeout"
               THEN Return("ESP_ERR_TIMEOUT", "poll")
                    /\ elapsed_us' = (now + d) - start_us
               ELSE Goto("wait_delay")
                    /\ elapsed_us' = (now + d) - start_us
    /\ Frame
    /\ UNCHANGED <<start_us, status>>

\* faulty variant of WaitDelay: the oneshot call triggers a new conversion before
\* each further attempt
WaitDelay_Retrigger ==
    /\ pc = "wait_delay"
    /\ Sleep(PollTicks(poll_interval_ms, tick_hz))
    /\ Goto(IF fn = "dht20_read_oneshot" THEN "trig_write" ELSE "meas_read")
    /\ Frame
    /\ UNCHANGED <<start_us, elapsed_us, status, raw, sample, read_us>>

\* vTaskDelay(poll_ticks)
WaitDelay ==
    /\ pc = "wait_delay"
    /\ Sleep(PollTicks(poll_interval_ms, tick_hz))
    /\ Goto("meas_read")
    /\ Frame
    /\ UNCHANGED <<start_us, elapsed_us, status, raw, sample, read_us>>

\* ------------------------------------------------------------------------
\* The driver under any caller
\* ------------------------------------------------------------------------
Init ==
    /\ tick_hz \in TickRates
    /\ now = 0
    /\ fn = "none"
    /\ pc = "idle"
    /\ dev = ZeroDev
    /\ sample_ok = TRUE
    /\ timeout_ms = 0
    /\ poll_interval_ms = 0
    /\ conversion_wait_ms = 0
    /\ start_us = 0
    /\ elapsed_us = 0
    /\ status = 0
    /\ raw = ZeroRaw
    /\ sample = ZeroSample
    /\ ret = "none"
    /\ log = <<>>
    /\ entry_sample = ZeroSample
    /\ err_src = "none"
    /\ read_us = 0
    /\ PostIdle

Next ==
    \/ dht20_init
    \/ InitPowerOnDelay
    \/ dht20_soft_reset
    \/ SoftResetWrite
    \/ SoftResetDelay
    \/ StatusWrite
    \/ StatusRead
    \/ CalWrite
    \/ CalDelay
    \/ dht20_start_measurement
    \/ dht20_read_oneshot
    \/ dht20_read
    \/ TriggerWrite
    \/ ConversionDelay
    \/ dht20_read_measurement
    \/ dht20_read_measurement_wait
    \/ MeasRead
    \/ WaitDelay

Spec == Init /\ [][Next]_vars

\* ------------------------------------------------------------------------
\* The frame decoder on its own: dht20_parse_sample applied to frames drawn
\* from a bounded set, one after another, into the same caller's sample
\* ------------------------------------------------------------------------
\* no further frame is decoded once the clock has reached this
MaxParseClock == 1

\* bytes 0..5 of the frames decoded: status bytes with the busy bit set and
\* clear, data bytes with low and high nibbles and bits set
ParseBodies ==
    { <<b0, b1, b2, b3, b4, b5>> :
        b0 \in {28, 152}, b1 \in {102, 255}, b2 \in {0, 165},
        b3 \in {15, 106, 240}, b4 \in {0, 255}, b5 \in {51, 128} }

\* each body with the right checksum and with two wrong ones
ParseFrames ==
    { GoodFrame(b) : b \in ParseBodies }
        \cup { BadFrame(b) : b \in ParseBodies }
        \cup { b \o <<BitXor(dht20_crc8(b, 6), 128)>> : b \in ParseBodies }

ParseInit ==
    /\ tick_hz = 1000
    /\ now = 0
    /\ fn = "dht20_parse_sample"
    /\ pc = "parse"
    /\ dev = ZeroDev
    /\ sample_ok = TRUE
    /\ timeout_ms = 0
    /\ poll_interval_ms = 0
    /\ conversion_wait_ms = 0
    /\ start_us = 0
    /\ elapsed_us = 0
    /\ status = 0
    /\ raw \in ParseFrames
    /\ sample = ZeroSample
    /\ ret = "none"
    /\ log = <<>>
    /\ entry_sample = ZeroSample
    /\ err_src = "none"
    /\ read_us = 0
    /\ PostIdle

\* return dht20_parse_sample(raw, sample)
ParseCall ==
    /\ pc = "parse"
    /\ \E p \in {dht20_parse_sample(raw, sample, now)} :
        /\ ret' = p.err
        /\ sample' = p.sample
    /\ pc' = "parsed"
    /\ UNCHANGED <<tick_hz, now, fn, dev, sample_ok, timeout_ms, poll_interval_ms,
                   conversion_wait_ms, start_us, elapsed_us, status, raw, log,
                   entry_sample, err_src, read_us>>
    /\ UNCHANGED post_vars

\* the next frame arrives in raw; the clock has moved on
ParseLoad ==
    /\ pc = "parsed"
    /\ now < MaxParseClock
    /\ \E f \in ParseFrames : raw' = f
    /\ now' = now + 1
    /\ entry_sample' = sample
    /\ pc' = "parse"
    /\ ret' = "none"
    /\ UNCHANGED <<tick_hz, fn, dev, sample_ok, timeout_ms, poll_interval_ms,
                   conversion_wait_ms, start_us, elapsed_us, status, sample, log,
                   err_src, read_us>>
    /\ UNCHANGED post_vars

ParseNext ==
    \/ ParseCall
    \/ ParseLoad

SpecParse == ParseInit /\ [][ParseNext]_vars

\* ------------------------------------------------------------------------
\* dht20_clampf, dht20_sample_apply_offset
\* ------------------------------------------------------------------------
\* the float sig * 2^ex, sig below 2^24
F32Lit(sig, ex) == F32RoundPack[0, sig, ex]

\* faulty variant of dht20_clampf: the upper limit is not enforced
dht20_clampf_NoUpper(value, min_v, max_v) ==
    IF F32Lt(value, min_v) THEN min_v ELSE value

dht20_clampf(value, min_v, max_v) ==
    IF F32Lt(value, min_v) THEN min_v
    ELSE IF F32Gt(value, max_v) THEN max_v
    ELSE value

\* faulty variant of OffsetSample: the temperature offset is stored, not added
OffsetSample_Assign(s, t_off, h_off) ==
    [s EXCEPT !.temperature_c = t_off,
              !.humidity_rh = dht20_clampf(F32Add[s.humidity_rh, h_off],
                                           F32_0, F32_100)]

\* sample->temperature_c += temperature_offset_c;
\* sample->humidity_rh = dht20_clampf(sample->humidity_rh + humidity_offset_rh, 0.0f, 100.0f)
OffsetSample(s, t_off, h_off) ==
    [s EXCEPT !.temperature_c = F32Add[s.temperature_c, t_off],
              !.humidity_rh = dht20_clampf(F32Add[s.humidity_rh, h_off],
                                           F32_0, F32_100)]

\* calls of dht20_sample_apply_offset made on one decoded sample
MaxOffsetCalls == 3

\* bytes 0..5 of the frames whose samples are post-processed: the lowest
\* counts, counts in mid-range and the highest counts
OffsetBodies ==
    { <<28, 0, 0, 0, 0, 0>>,
      <<28, 102, 102, 102, 51, 51>>,
      <<28, 255, 255, 255, 255, 255>> }

\* the offsets callers pass: 0, 0.5 and +infinity degrees; 0, 2, 5, -5 and
\* 99 percent and a NaN
TempOffsets == {F32_0, F32Lit(1, 0 - 1), F32_INF}
HumOffsets ==
    {F32_0, F32Lit(2, 0), F32Lit(5, 0), 0 - F32Lit(5, 0), F32Lit(99, 0), F32_NAN}

\* everything but the sample, the call's arguments and the history
OffsetFrame ==
    UNCHANGED <<tick_hz, now, pc, dev, timeout_ms, poll_interval_ms,
                conversion_wait_ms, start_us, elapsed_us, status, raw, log,
                read_us, filter, filter_ok, alpha, input, input_ok, output,
                output_ok, entry_filter, entry_output, last_input, twin, app,
                knob_vars>>

dht20_sample_apply_offset ==
    \E sok \in BOOLEAN, t_off \in TempOffsets, h_off \in HumOffsets :
        /\ pc = "idle"
        /\ n_calls < MaxOffsetCalls
        /\ n_calls' = n_calls + 1
        /\ fn' = "dht20_sample_apply_offset"
        /\ sample_ok' = sok
        /\ temperature_offset_c' = t_off
        /\ humidity_offset_rh' = h_off
        /\ entry_sample' = sample
        /\ last_offset' =
             [temperature_offset_c |-> temperature_offset_c,
              humidity_offset_rh |-> humidity_offset_rh,
              applied |-> (fn = "dht20_sample_apply_offset" /\ ret = "ESP_OK"),
              before |-> entry_sample]
        /\ IF ~sok
           THEN /\ ret' = "ESP_ERR_INVALID_ARG"
                /\ err_src' = "arg"
                /\ UNCHANGED sample
           ELSE /\ ret' = "ESP_OK"
                /\ err_src' = "none"
                /\ sample' = OffsetSample(sample, t_off, h_off)
        /\ OffsetFrame

\* a sample has been decoded and is handed to the calibration stage
OffsetInit ==
    /\ tick_hz = 1000
    /\ now = 0
    /\ fn = "none"
    /\ pc = "idle"
    /\ dev = ZeroDev
    /\ sample_ok = TRUE
    /\ timeout_ms = 0
    /\ poll_interval_ms = 0
    /\ conversion_wait_ms = 0
    /\ start_us = 0
    /\ elapsed_us = 0
    /\ status = 0
    /\ \E b \in OffsetBodies :
        /\ raw = GoodFrame(b)
        /\ sample = dht20_parse_sample(GoodFrame(b), ZeroSample, 0).sample
    /\ ret = "none"
    /\ log = <<>>
    /\ entry_sample = sample
    /\ err_src = "none"
    /\ read_us = 0
    /\ PostIdle

OffsetNext == dht20_sample_apply_offset

SpecOffset == OffsetInit /\ [][OffsetNext]_vars

\* ------------------------------------------------------------------------
\* dht20_filter_init, dht20_filter_reset, dht20_filter_apply
\* ------------------------------------------------------------------------
\* calls of the filter API in one behaviour
MaxFilterCalls == 5

\* alpha > 0.0f && alpha <= 1.0f
AlphaInRange(a) == F32Gt(a, F32_0) /\ F32Le(a, F32_1)

\* the alphas callers pass: 1.0, 0.5 and 0.1f = 13421773 * 2^-27, and the
\* ones to be refused: 0, 1.5, +infinity and a NaN
Alphas ==
    {F32_1, F32Lit(1, 0 - 1), F32Lit(13421773, 0 - 27),
     F32_0, F32Lit(3, 0 - 1), F32_INF, F32_NAN}

\* the samples fed to the filter: decoded from a frame of mid-range counts,
\* of the highest counts and of the lowest counts, and the last of these
\* after a calibration with an infinite temperature offset
FilterInputs ==
    LET Decoded(b) == dht20_parse_sample(GoodFrame(b), ZeroSample, 0).sample
    IN  { Decoded(<<28, 99, 51, 54, 102, 102>>),
          Decoded(<<28, 255, 255, 255, 255, 255>>),
          Decoded(<<28, 0, 0, 0, 0, 0>>),
          OffsetSample(Decoded(<<28, 0, 0, 0, 0, 0>>), F32_INF, F32_0) }

\* (filter->alpha * input) + (one_minus_alpha * smoothed), with
\* one_minus_alpha = 1.0f - filter->alpha
Blend(a, in, smoothed) ==
    F32Add[F32Mul[a, in], F32Mul[F32Sub(F32_1, a), smoothed]]

\* faulty variant of FilterStep: seeding stores the temperature and forgets
\* the humidity
FilterStep_SeedTempOnly(f, in) ==
    IF ~f.initialized
    THEN [f EXCEPT !.temperature_c = in.temperature_c,
                   !.initialized = TRUE]
    ELSE [f EXCEPT !.temperature_c = Blend(f.alpha, in.temperature_c, f.temperature_c),
                   !.humidity_rh = Blend(f.alpha, in.humidity_rh, f.humidity_rh)]

\* faulty variant of FilterStep: a filter that is not initialized blends the
\* input with the values it holds
FilterStep_NoSeed(f, in) ==
    [f EXCEPT !.temperature_c = Blend(f.alpha, in.temperature_c, f.temperature_c),
              !.humidity_rh = Blend(f.alpha, in.humidity_rh, f.humidity_rh),
              !.initialized = TRUE]

\* the filter after dht20_filter_apply has taken in the sample in
FilterStep(f, in) ==
    IF ~f.initialized
    THEN [f EXCEPT !.temperature_c = in.temperature_c,
                   !.humidity_rh = in.humidity_rh,
                   !.initialized = TRUE]
    ELSE [f EXCEPT !.temperature_c = Blend(f.alpha, in.temperature_c, f.temperature_c),
                   !.humidity_rh = Blend(f.alpha, in.humidity_rh, f.humidity_rh)]

\* *output = *input, then the two smoothed values, the humidity clamped
FilterOutput(f, in) ==
    [in EXCEPT !.temperature_c = f.temperature_c,
               !.humidity_rh = dht20_clampf(f.humidity_rh, F32_0, F32_100)]

\* the filter a successful dht20_filter_init leaves
FreshFilter(a) ==
    [initialized |-> FALSE, alpha |-> a, humidity_rh |-> F32_0,
     temperature_c |-> F32_0]

\* what a call of the filter API leaves alone and what it records
FilterCall(f) ==
    /\ pc = "idle"
    /\ n_calls < MaxFilterCalls
    /\ n_calls' = n_calls + 1
    /\ fn' = f
    /\ entry_filter' = filter
    /\ entry_output' = output
    /\ UNCHANGED <<tick_hz, now, pc, dev, sample_ok, timeout_ms, poll_interval_ms,
                   conversion_wait_ms, start_us, elapsed_us, status, raw, sample,
                   log, entry_sample, read_us, temperature_offset_c,
                   humidity_offset_rh, last_offset, app, knob_vars>>

\* faulty variant of dht20_filter_init: a refused alpha is stored all the same
dht20_filter_init_StoreFirst ==
    \E fok \in BOOLEAN, a \in Alphas :
        /\ FilterCall("dht20_filter_init")
        /\ filter_ok' = fok
        /\ alpha' = a
        /\ UNCHANGED <<input, input_ok, output, output_ok, last_input>>
        /\ IF ~fok
           THEN /\ ret' = "ESP_ERR_INVALID_ARG"
                /\ err_src' = "arg"
                /\ UNCHANGED <<filter, twin>>
           ELSE IF ~F32IsFinite(a) \/ ~AlphaInRange(a)
           THEN /\ ret' = "ESP_ERR_INVALID_ARG"
                /\ err_src' = "arg"
                /\ filter' = [filter EXCEPT !.alpha = a]
                /\ UNCHANGED twin
           ELSE /\ ret' = "ESP_OK"
                /\ err_src' = "none"
                /\ filter' = FreshFilter(a)
                /\ twin' = FreshFilter(a)

dht20_filter_init ==
    \E fok \in BOOLEAN, a \in Alphas :
        /\ FilterCall("dht20_filter_init")
        /\ filter_ok' = fok
        /\ alpha' = a
        /\ UNCHANGED <<input, input_ok, output, output_ok, last_input>>
        /\ IF ~fok \/ ~F32IsFinite(a) \/ ~AlphaInRange(a)
           THEN /\ ret' = "ESP_ERR_INVALID_ARG"
                /\ err_src' = "arg"
                /\ UNCHANGED <<filter, twin>>
           ELSE /\ ret' = "ESP_OK"
                /\ err_src' = "none"
                /\ filter' = FreshFilter(a)
                /\ twin' = FreshFilter(a)

\* faulty variant of dht20_filter_reset: the smoothed values are cleared too
dht20_filter_reset_ZeroValues ==
    \E fok \in BOOLEAN :
        /\ FilterCall("dht20_filter_reset")
        /\ filter_ok' = fok
        /\ ret' = "none"
        /\ err_src' = "none"
        /\ UNCHANGED <<alpha, input, input_ok, output, output_ok, last_input>>
        /\ IF ~fok
           THEN UNCHANGED <<filter, twin>>
           ELSE /\ filter' = FreshFilter(filter.alpha)
                /\ twin' = FreshFilter(filter.alpha)

\* faulty variant of dht20_filter_reset: the whole filter is zero-filled
dht20_filter_reset_Memset ==
    \E fok \in BOOLEAN :
        /\ FilterCall("dht20_filter_reset")
        /\ filter_ok' = fok
        /\ ret' = "none"
        /\ err_src' = "none"
        /\ UNCHANGED <<alpha, input, input_ok, output, output_ok, last_input>>
        /\ IF ~fok
           THEN UNCHANGED <<filter, twin>>
           ELSE /\ filter' = ZeroFilter
                /\ twin' = ZeroFilter

\* void: nothing is returned. The twin is a reset filter of the same alpha
\* that has seen no sample before
dht20_filter_reset ==
    \E fok \in BOOLEAN :
        /\ FilterCall("dht20_filter_reset")
        /\ filter_ok' = fok
        /\ ret' = "none"
        /\ err_src' = "none"
        /\ UNCHANGED <<alpha, input, input_ok, output, output_ok, last_input>>
        /\ IF ~fok
           THEN UNCHANGED <<filter, twin>>
           ELSE /\ filter' = [filter EXCEPT !.initialized = FALSE]
                /\ twin' = FreshFilter(filter.alpha)

\* faulty variant of dht20_filter_apply: *output = *input comes before the
\* test of alpha
dht20_filter_apply_CopyFirst ==
    \E fok \in BOOLEAN, iok \in BOOLEAN, ook \in BOOLEAN, in \in FilterInputs :
        /\ FilterCall("dht20_filter_apply")
        /\ filter_ok' = fok
        /\ input_ok' = iok
        /\ output_ok' = ook
        /\ UNCHANGED alpha
        /\ IF ~fok \/ ~iok \/ ~ook
           THEN /\ ret' = "ESP_ERR_INVALID_ARG"
                /\ err_src' = "arg"
                /\ UNCHANGED <<filter, input, output, last_input, twin>>
           ELSE IF ~AlphaInRange(filter.alpha)
           THEN /\ ret' = "ESP_ERR_INVALID_STATE"
                /\ err_src' = "filter"
                /\ output' = in
                /\ UNCHANGED <<filter, input, last_input, twin>>
           ELSE /\ ret' = "ESP_OK"
                /\ err_src' = "none"
                /\ input' = in
                /\ last_input' = input
                /\ filter' = FilterStep(filter, in)
                /\ twin' = FilterStep(twin, in)
                /\ output' = FilterOutput(FilterStep(filter, in), in)

dht20_filter_apply ==
    \E fok \in BOOLEAN, iok \in BOOLEAN, ook \in BOOLEAN, in \in FilterInputs :
        /\ FilterCall("dht20_filter_apply")
        /\ filter_ok' = fok
        /\ input_ok' = iok
        /\ output_ok' = ook
        /\ UNCHANGED alpha
        /\ IF ~fok \/ ~iok \/ ~ook
           THEN /\ ret' = "ESP_ERR_INVALID_ARG"
                /\ err_src' = "arg"
                /\ UNCHANGED <<filter, input, output, last_input, twin>>
           ELSE IF ~AlphaInRange(filter.alpha)
           THEN /\ ret' = "ESP_ERR_INVALID_STATE"
                /\ err_src' = "filter"
                /\ UNCHANGED <<filter, input, output, last_input, twin>>
           ELSE /\ ret' = "ESP_OK"
                /\ err_src' = "none"
                /\ input' = in
                /\ last_input' = input
                /\ filter' = FilterStep(filter, in)
                /\ twin' = FilterStep(twin, in)
                /\ output' = FilterOutput(FilterStep(filter, in), in)

\* what a dht20_filter_t holds before any dht20_filter_init has succeeded
\* on it: zeros (static storage, = {0}), or whatever the memory held, here
\* with an alpha of 1.5, of -0.5 and a NaN
UnsetFilters ==
    { ZeroFilter,
      [initialized |-> TRUE, alpha |-> F32Lit(3, 0 - 1),
       humidity_rh |-> F32_50, temperature_c |-> F32_50],
      [initialized |-> TRUE, alpha |-> 0 - F32Lit(1, 0 - 1),
       humidity_rh |-> F32_50, temperature_c |-> F32_0],
      [initialized |-> FALSE, alpha |-> F32_NAN,
       humidity_rh |-> F32_0, temperature_c |-> F32_50] }

\* a filter that no call has touched yet
FilterInit ==
    /\ tick_hz = 1000
    /\ now = 0
    /\ fn = "none"
    /\ pc = "idle"
    /\ dev = ZeroDev
    /\ sample_ok = TRUE
    /\ timeout_ms = 0
    /\ poll_interval_ms = 0
    /\ conversion_wait_ms = 0
    /\ start_us = 0
    /\ elapsed_us = 0
    /\ status = 0
    /\ raw = ZeroRaw
    /\ sample = ZeroSample
    /\ ret = "none"
    /\ log = <<>>
    /\ entry_sample = ZeroSample
    /\ err_src = "none"
    /\ read_us = 0
    /\ filter \in UnsetFilters
    /\ entry_filter = filter
    /\ filter_ok = TRUE
    /\ alpha = 0
    /\ input = ZeroSample
    /\ input_ok = TRUE
    /\ output = ZeroSample
    /\ output_ok = TRUE
    /\ temperature_offset_c = 0
    /\ humidity_offset_rh = 0
    /\ n_calls = 0
    /\ entry_output = ZeroSample
    /\ last_input = ZeroSample
    /\ last_offset = NoOffsetCall
    /\ twin = ZeroFilter
    /\ app = ZeroWindow
    /\ KnobIdle

FilterNext ==
    \/ dht20_filter_init
    \/ dht20_filter_reset
    \/ dht20_filter_apply

SpecFilter == FilterInit /\ [][FilterNext]_vars

\* ------------------------------------------------------------------------
\* The unit conversion on its own: the two float expressions of
\* dht20_parse_sample applied to raw counts, one count after the other
\* ------------------------------------------------------------------------
\* counts converted in each stretch
ConvSpan == 24

\* 2^20: one more than the largest count a frame carries
RawLimit == 1048576

\* where the stretches begin: at 0, where the products stop being exact
\* (2^24 / 200 and 2^24 / 100), at 0 degrees, at mid-scale and below 2^20
ConvStarts == {0, 83880, 167760, 262130, 524280, RawLimit - ConvSpan}

\* the physical values the decoder stores for the raw counts h and t
ConvertedSample(h, t) ==
    [timestamp_us    |-> 0,
     humidity_raw    |-> h,
     temperature_raw |-> t,
     humidity_rh     |-> HumidityRh(h),
     temperature_c   |-> TemperatureC(t)]

ConvInit ==
    /\ tick_hz = 1000
    /\ now = 0
    /\ fn = "dht20_parse_sample"
    /\ pc = "convert"
    /\ dev = ZeroDev
    /\ sample_ok = TRUE
    /\ timeout_ms = 0
    /\ poll_interval_ms = 0
    /\ conversion_wait_ms = 0
    /\ start_us = 0
    /\ elapsed_us = 0
    /\ status = 0
    /\ raw = ZeroRaw
    /\ \E n \in ConvStarts :
        /\ sample = ConvertedSample(n, n)
        /\ entry_sample = ConvertedSample(n, n)
    /\ ret = "ESP_OK"
    /\ log = <<>>
    /\ err_src = "none"
    /\ read_us = 0
    /\ PostIdle

\* the conversion of the next count; the one before is kept for comparison
ConvertNext ==
    /\ pc = "convert"
    /\ \E n \in ConvStarts :
        /\ n <= sample.humidity_raw
        /\ sample.humidity_raw < n + ConvSpan
    /\ entry_sample' = sample
    /\ sample' = ConvertedSample(sample.humidity_raw + 1, sample.temperature_raw + 1)
    /\ UNCHANGED <<tick_hz, now, fn, pc, dev, sample_ok, timeout_ms,
                   poll_interval_ms, conversion_wait_ms, start_us, elapsed_us,
                   status, raw, ret, log, err_src, read_us>>
    /\ UNCHANGED post_vars

SpecConvert == ConvInit /\ [][ConvertNext]_vars

\* ------------------------------------------------------------------------
\* app_main: the acquisition loop, one action per driver call
\* ------------------------------------------------------------------------
\* rounds of the loop in one behaviour
MaxAppRounds == 10

\* DHT20_READY_TIMEOUT_MS, DHT20_POLL_INTERVAL_MS, DHT20_PRINT_PERIOD_MS
DHT20_READY_TIMEOUT_MS == 120
DHT20_POLL_INTERVAL_MS == 2
DHT20_PRINT_PERIOD_MS == 2000

\* a driver call in the history of the loop
LogCall(f, r) == [k |-> f, arg |-> <<>>, res |-> r, dec |-> "none"]

\* what dht20_read_measurement_wait returns to the loop and how long it
\* takes, in microseconds: a sample after the conversion time, a timeout
\* once DHT20_READY_TIMEOUT_MS and the last bus transaction are over, a bus
\* error after the bus timeout
AppPollOutcomes ==
    { [res |-> "ESP_OK", us |-> 80000],
      [res |-> "ESP_ERR_TIMEOUT",
       us |-> (DHT20_READY_TIMEOUT_MS + DHT20_I2C_TIMEOUT_MS) * 1000],
      [res |-> "ESP_FAIL", us |-> DHT20_I2C_TIMEOUT_MS * 1000] }

\* what dht20_start_measurement returns to the loop and how long it takes
AppStartOutcomes ==
    { [res |-> "ESP_OK", us |-> MaxBusUs],
      [res |-> "ESP_FAIL", us |-> DHT20_I2C_TIMEOUT_MS * 1000] }

\* the frame the sensor delivers to a successful poll
AppFrame == GoodFrame(<<28, 102, 102, 102, 51, 51>>)

\* what an action of the loop never touches
AppFrameCond ==
    UNCHANGED <<tick_hz, sample_ok, timeout_ms, poll_interval_ms,
                conversion_wait_ms, start_us, elapsed_us, status, raw,
                entry_sample, read_us, filter, filter_ok, alpha, input,
                input_ok, output, output_ok, temperature_offset_c,
                humidity_offset_rh, entry_filter, entry_output, last_input,
                last_offset, twin, knob_vars>>

\* ESP_ERROR_CHECK(dht20_init(&dht20, ...)): abort() on an error
AppInitSensor ==
    /\ pc = "app_init"
    /\ \E r \in BusResults :
        /\ fn' = "dht20_init"
        /\ ret' = r
        /\ err_src' = IF r = "ESP_OK" THEN "none" ELSE "bus"
        /\ log' = Append(log, LogCall("dht20_init", r))
        /\ now' = now + DelayUs(pdMS_TO_TICKS(DHT20_POWER_ON_DELAY_MS
                                                + DHT20_SOFT_RESET_DELAY_MS,
                                              tick_hz), tick_hz)
        /\ dev' = IF r = "ESP_OK"
                  THEN [i2c_port |-> 0, i2c_addr |-> DHT20_I2C_ADDR_DEFAULT,
                        i2c_timeout_ms |-> DHT20_I2C_TIMEOUT_MS]
                  ELSE dev
        /\ pc' = IF r = "ESP_OK" THEN "app_first_start" ELSE "app_abort"
    /\ UNCHANGED <<sample, n_calls, app>>
    /\ AppFrameCond

\* ESP_ERROR_CHECK(dht20_start_measurement(&dht20)), then
\* window_start_us = esp_timer_get_time() and the zeroed sums
AppFirstStart ==
    /\ pc = "app_first_start"
    /\ \E o \in AppStartOutcomes :
        /\ fn' = "dht20_start_measurement"
        /\ ret' = o.res
        /\ err_src' = IF o.res = "ESP_OK" THEN "none" ELSE "bus"
        /\ log' = Append(log, LogCall("dht20_start_measurement", o.res))
        /\ now' = now + o.us
        /\ pc' = IF o.res = "ESP_OK" THEN "app_poll" ELSE "app_abort"
        /\ app' = IF o.res = "ESP_OK"
                  THEN [ZeroWindow EXCEPT !.window_start_us = now + o.us]
                  ELSE app
    /\ UNCHANGED <<dev, sample, n_calls>>
    /\ AppFrameCond

\* err = dht20_read_measurement_wait(...); on ESP_OK the offsets are applied
\* and the sample is added to the sums, otherwise error_samples++
AppPoll ==
    /\ pc = "app_poll"
    /\ n_calls < MaxAppRounds
    /\ n_calls' = n_calls + 1
    /\ \E o \in AppPollOutcomes :
        /\ fn' = "dht20_read_measurement_wait"
        /\ ret' = o.res
        /\ err_src' = IF o.res = "ESP_OK" THEN "none"
                      ELSE IF o.res = "ESP_ERR_TIMEOUT" THEN "poll" ELSE "bus"
        /\ log' = Append(log, LogCall("dht20_read_measurement_wait", o.res))
        /\ now' = now + o.us
        /\ IF o.res = "ESP_OK"
           THEN \E s \in {OffsetSample(ParsedSample(AppFrame, now + o.us),
                                        F32_0, F32_0)} :
                    /\ sample' = s
                    /\ app' = [app EXCEPT
                          !.temperature_sum = F32Add[@, s.temperature_c],
                          !.humidity_sum = F32Add[@, s.humidity_rh],
                          !.valid_samples = @ + 1]
           ELSE /\ UNCHANGED sample
                /\ app' = [app EXCEPT !.error_samples = @ + 1]
    /\ pc' = "app_start"
    /\ UNCHANGED dev
    /\ AppFrameCond

\* err = dht20_start_measurement(&dht20); on an error the message and
\* vTaskDelay(pdMS_TO_TICKS(50)). A new round of the history begins here
AppStart ==
    /\ pc = "app_start"
    /\ \E o \in AppStartOutcomes :
        /\ fn' = "dht20_start_measurement"
        /\ ret' = o.res
        /\ err_src' = IF o.res = "ESP_OK" THEN "none" ELSE "bus"
        /\ IF o.res = "ESP_OK"
           THEN /\ log' = <<LogCall("dht20_start_measurement", o.res)>>
                /\ now' = now + o.us
           ELSE /\ log' = <<LogCall("dht20_start_measurement", o.res),
                            LogSleep(pdMS_TO_TICKS(50, tick_hz))>>
                /\ now' = now + o.us + DelayUs(pdMS_TO_TICKS(50, tick_hz), tick_hz)
    /\ pc' = "app_window"
    /\ UNCHANGED <<dev, sample, n_calls, app>>
    /\ AppFrameCond

\* the averaging window: once DHT20_PRINT_PERIOD_MS have passed the averages
\* are printed (and shown) and the window starts again; then knob_process
\* and vTaskDelay(pdMS_TO_TICKS(1))
AppWindow ==
    /\ pc = "app_window"
    /\ app' = IF now - app.window_start_us >= DHT20_PRINT_PERIOD_MS * 1000
              THEN [ZeroWindow EXCEPT !.window_start_us = now]
              ELSE app
    /\ log' = Append(log, LogSleep(pdMS_TO_TICKS(1, tick_hz)))
    /\ now' = now + DelayUs(pdMS_TO_TICKS(1, tick_hz), tick_hz)
    /\ pc' = "app_poll"
    /\ UNCHANGED <<fn, ret, err_src, dev, sample, n_calls>>
    /\ AppFrameCond

\* dht20_t dht20 = {0}; dht20_sample_t sample = {0}
AppInit ==
    /\ tick_hz \in TickRates
    /\ now = 0
    /\ fn = "none"
    /\ pc = "app_init"
    /\ dev = ZeroDev
    /\ sample_ok = TRUE
    /\ timeout_ms = DHT20_READY_TIMEOUT_MS
    /\ poll_interval_ms = DHT20_POLL_INTERVAL_MS
    /\ conversion_wait_ms = 0
    /\ start_us = 0
    /\ elapsed_us = 0
    /\ status = 0
    /\ raw = ZeroRaw
    /\ sample = ZeroSample
    /\ ret = "none"
    /\ log = <<>>
    /\ entry_sample = ZeroSample
    /\ err_src = "none"
    /\ read_us = 0
    /\ PostIdle

AppNext ==
    \/ AppInitSensor
    \/ AppFirstStart
    \/ AppPoll
    \/ AppStart
    \/ AppWindow

SpecApp == AppInit /\ [][AppNext]_vars

\* ------------------------------------------------------------------------
\* The rotary encoder with push button (knob_api.c)
\* ------------------------------------------------------------------------
\* the longest time that passes, in milliseconds
MaxKnobMs == 60

\* the time that passes between two calls, in milliseconds
KnobStepMs == 30

\* how far the position is followed from zero and from the ends of int32_t
MaxKnobTurn == 1

KNOB_DEFAULT_DEBOUNCE_MS == 30

INT32_MAX == 2147483647

INT32_MIN == (0 - 2147483647) - 1

\* a uint32_t is the pair of its high and its low 16 bits
U32OfNat(n) == <<n \div 65536, n % 65536>>

\* a >= b on uint32_t
U32Ge(a, b) == a[1] > b[1] \/ (a[1] = b[1] /\ a[2] >= b[2])

\* a + b on uint32_t, modulo 2^32
U32Plus(a, b) ==
    LET lo == a[2] + b[2]
    IN  <<(a[1] + b[1] + lo \div 65536) % 65536, lo % 65536>>

\* a - b on uint32_t, modulo 2^32
U32Sub(a, b) ==
    LET lo == a[2] - b[2]
        borrow == IF lo < 0 THEN 1 ELSE 0
    IN  <<(a[1] - b[1] - borrow + 65536) % 65536, (lo + 65536) % 65536>>

\* a * n on uint32_t for a small n, modulo 2^32
U32Times(a, n) ==
    LET lo == a[2] * n
    IN  <<(a[1] * n + lo \div 65536) % 65536, lo % 65536>>

\* portTICK_PERIOD_MS: ((TickType_t) 1000 / configTICK_RATE_HZ)
portTICK_PERIOD_MS(hz) == 1000 \div hz

\* (uint32_t)(xTaskGetTickCount() * portTICK_PERIOD_MS)
knob_now_ms(ticks, hz) == U32Times(ticks, portTICK_PERIOD_MS(hz))

\* static const int8_t transition_table[16], indexed from 1
transition_table ==
    <<0, 0 - 1, 1, 0,   1, 0, 0, 0 - 1,   0 - 1, 0, 0, 1,   0, 1, 0 - 1, 0>>

\* the tick counts at which the encoder is taken into use: shortly before
\* the tick counter wraps (1 ms a tick), and shortly before the product
\* with the tick period wraps (2 ms a tick)
KnobBootTicks(hz) ==
    IF hz = 1000 THEN {<<65535, 65520>>} ELSE {<<32767, 65520>>}

\* the cfg arguments passed to knob_init: NULL, or a pointer to a
\* configuration
KnobCfgs ==
    { [is_null |-> TRUE, enable_pullup |-> FALSE, button_active_low |-> FALSE,
       button_debounce_ms |-> <<0, 0>>],
      [is_null |-> FALSE, enable_pullup |-> TRUE, button_active_low |-> TRUE,
       button_debounce_ms |-> <<0, 0>>],
      [is_null |-> FALSE, enable_pullup |-> TRUE, button_active_low |-> FALSE,
       button_debounce_ms |-> <<0, 60>>] }

\* the levels of the lines CLK and DT while knob_init runs: the shaft rests
\* in a detent, both contacts open or both closed
KnobRestLines == {0, 3}

\* the positions passed to knob_set_position
KnobPositions == {0, INT32_MAX}

\* the positions the model follows
KnobReach(p) ==
    \/ (p >= 0 - MaxKnobTurn /\ p <= MaxKnobTurn)
    \/ p >= INT32_MAX - MaxKnobTurn
    \/ p <= INT32_MIN + MaxKnobTurn

\* local_cfg of knob_init: the defaults, or *cfg with a zero debounce time
\* replaced by the default
KnobLocalCfg(cfg) ==
    IF cfg.is_null
    THEN [enable_pullup |-> TRUE, button_active_low |-> TRUE,
          button_debounce_ms |-> U32OfNat(KNOB_DEFAULT_DEBOUNCE_MS)]
    ELSE [enable_pullup |-> cfg.enable_pullup,
          button_active_low |-> cfg.button_active_low,
          button_debounce_ms |-> IF cfg.button_debounce_ms = <<0, 0>>
                                 THEN U32OfNat(KNOB_DEFAULT_DEBOUNCE_MS)
                                 ELSE cfg.button_debounce_ms]

\* faulty variant of the debounce test: the deadline is computed by an
\* addition and compared, which is wrong when the counter wraps
KnobDebounced_Deadline(now_ms, last_ms, debounce_ms) ==
    U32Ge(now_ms, U32Plus(last_ms, debounce_ms))

\* (now_ms - knob->last_sw_change_ms) >= knob->cfg.button_debounce_ms
KnobDebounced(now_ms, last_ms, debounce_ms) ==
    U32Ge(U32Sub(now_ms, last_ms), debounce_ms)

\* the quadrature part of knob_poll: the accumulator after the table step,
\* before the test against +-4
KnobAccumulate(k, ab) ==
    k.step_acc + transition_table[((k.last_ab * 4) + ab) + 1]

\* faulty variant of the button part: every release is a click
KnobButton_AlwaysClick(k, raw_sw, now_ms) ==
    IF raw_sw # k.last_sw_level
       /\ KnobDebounced(now_ms, k.last_sw_change_ms, k.cfg.button_debounce_ms)
    THEN LET is_pressed == IF k.cfg.button_active_low
                           THEN raw_sw = 0 ELSE raw_sw # 0
         IN  [knob |-> [k EXCEPT !.last_sw_level = raw_sw,
                                 !.last_sw_change_ms = now_ms,
                                 !.pressed_latched = is_pressed],
              pressed |-> is_pressed,
              released |-> ~is_pressed,
              clicked |-> ~is_pressed]
    ELSE [knob |-> k, pressed |-> FALSE, released |-> FALSE, clicked |-> FALSE]

\* the button part of knob_poll: the knob after it and the three flags
KnobButton(k, raw_sw, now_ms) ==
    IF raw_sw # k.last_sw_level
       /\ KnobDebounced(now_ms, k.last_sw_change_ms, k.cfg.button_debounce_ms)
    THEN LET is_pressed == IF k.cfg.button_active_low
                           THEN raw_sw = 0 ELSE raw_sw # 0
         IN  [knob |-> [k EXCEPT !.last_sw_level = raw_sw,
                                 !.last_sw_change_ms = now_ms,
                                 !.pressed_latched = is_pressed],
              pressed |-> is_pressed,
              released |-> ~is_pressed,
              clicked |-> ~is_pressed /\ k.pressed_latched]
    ELSE [knob |-> k, pressed |-> FALSE, released |-> FALSE, clicked |-> FALSE]

\* the history after a call that read no line: the event the caller held,
\* a local of knob_process, is gone with it
KnobQuiet == [knob_hist EXCEPT !.raw_sw = knob.last_sw_level, !.waited_ms = 0]

\* everything but the encoder, its clock and the call's name and result
KnobFrame ==
    UNCHANGED <<tick_hz, now, dev, sample_ok, timeout_ms, poll_interval_ms,
                conversion_wait_ms, start_us, elapsed_us, status, raw, sample,
                log, entry_sample, err_src, read_us, filter, filter_ok, alpha,
                input, input_ok, output, output_ok, temperature_offset_c,
                humidity_offset_rh, n_calls, entry_filter, entry_output,
                last_input, last_offset, twin, app>>

\* knob_init refuses its arguments, or fails in gpio_config after the
\* memset, or reads the lines and the clock and marks the knob initialized
knob_init ==
    /\ pc = "idle"
    /\ fn' = "knob_init"
    /\ \/ /\ ret' = "ESP_ERR_INVALID_ARG"
          /\ knob' = knob
          /\ knob_hist' = KnobQuiet
       \/ \E cfg \in KnobCfgs :
            \/ /\ ret' = "ESP_FAIL"
               /\ knob' = [ZeroKnob EXCEPT !.cfg = KnobLocalCfg(cfg)]
               /\ knob_hist' = KnobQuiet
            \/ \E ab \in KnobRestLines, raw_sw \in 0..1 :
                /\ ret' = "ESP_OK"
                /\ knob' = [ZeroKnob EXCEPT
                              !.cfg = KnobLocalCfg(cfg),
                              !.last_ab = ab,
                              !.last_sw_level = raw_sw,
                              !.last_sw_change_ms = knob_now_ms(tick_count, tick_hz),
                              !.initialized = TRUE]
                /\ knob_hist' = [knob_hist EXCEPT
                                   !.raw_sw = raw_sw,
                                   !.change_at_ms = knob_hist.uptime_ms,
                                   !.waited_ms = 0,
                                   !.last_button = "none",
                                   !.press_accepted = FALSE]
    /\ event' = ZeroEvent
    /\ UNCHANGED <<pc, tick_count>>
    /\ KnobFrame

\* knob_poll refuses a NULL pointer and a knob that is not initialized;
\* otherwise it zeroes the event, decodes the two lines, debounces the
\* button and reports the position
knob_poll ==
    /\ pc = "idle"
    /\ fn' = "knob_poll"
    /\ \/ /\ ret' = "ESP_ERR_INVALID_ARG"
          /\ event' = ZeroEvent
          /\ knob_hist' = KnobQuiet
          /\ UNCHANGED <<pc, knob>>
       \/ /\ ~knob.initialized
          /\ ret' = "ESP_ERR_INVALID_STATE"
          /\ event' = ZeroEvent
          /\ knob_hist' = KnobQuiet
          /\ UNCHANGED <<pc, knob>>
       \/ /\ knob.initialized
          /\ \E ab \in 0..3, raw_sw \in 0..1 :
              LET acc == KnobAccumulate(knob, ab)
                  delta == IF acc >= 4 THEN 1 ELSE IF acc <= 0 - 4 THEN 0 - 1 ELSE 0
                  \* knob->position++ at INT32_MAX and knob->position-- at
                  \* INT32_MIN are signed overflows
                  overflow == \/ (delta = 1 /\ knob.position = INT32_MAX)
                              \/ (delta = 0 - 1 /\ knob.position = INT32_MIN)
                  position == IF delta = 0 THEN knob.position
                              ELSE IF overflow
                                   THEN (IF delta = 1 THEN INT32_MIN ELSE INT32_MAX)
                                   ELSE knob.position + delta
                  turned == [knob EXCEPT !.step_acc = IF delta = 0 THEN acc ELSE 0,
                                         !.last_ab = ab,
                                         !.position = position]
                  b == KnobButton(turned, raw_sw, knob_now_ms(tick_count, tick_hz))
              IN  /\ KnobReach(position)
                  /\ \/ \* the overflow traps: the call does not return
                        /\ overflow
                        /\ pc' = "abort"
                        /\ ret' = "none"
                        /\ event' = ZeroEvent
                        /\ knob_hist' = KnobQuiet
                        /\ UNCHANGED knob
                     \/ \* no overflow, or the addition wraps
                        /\ pc' = pc
                        /\ ret' = "ESP_OK"
                        /\ knob' = b.knob
                        /\ event' = [delta |-> delta, pressed |-> b.pressed,
                                     released |-> b.released, clicked |-> b.clicked,
                                     position |-> b.knob.position]
                        /\ knob_hist' =
                             [knob_hist EXCEPT
                                !.raw_sw = raw_sw,
                                !.waited_ms = knob_hist.uptime_ms - knob_hist.change_at_ms,
                                !.change_at_ms = IF b.pressed \/ b.released
                                                 THEN knob_hist.uptime_ms ELSE @,
                                !.last_button = IF b.pressed THEN "pressed"
                                                ELSE IF b.released THEN "released" ELSE @,
                                !.press_accepted = IF b.pressed THEN TRUE
                                                   ELSE IF b.released THEN FALSE ELSE @]
    /\ UNCHANGED tick_count
    /\ KnobFrame

\* knob_set_position refuses a NULL knob and a knob that is not initialized
knob_set_position ==
    /\ pc = "idle"
    /\ fn' = "knob_set_position"
    /\ \/ /\ ret' = "ESP_ERR_INVALID_ARG"
          /\ UNCHANGED knob
       \/ /\ ~knob.initialized
          /\ ret' = "ESP_ERR_INVALID_STATE"
          /\ UNCHANGED knob
       \/ /\ knob.initialized
          /\ \E position \in KnobPositions :
              /\ ret' = "ESP_OK"
              /\ knob' = [knob EXCEPT !.position = position]
    /\ event' = ZeroEvent
    /\ knob_hist' = KnobQuiet
    /\ UNCHANGED <<pc, tick_count>>
    /\ KnobFrame

\* the caller sleeps between two calls: vTaskDelay(pdMS_TO_TICKS(KnobStepMs))
KnobSleep ==
    /\ pc = "idle"
    /\ \E ticks \in {pdMS_TO_TICKS(KnobStepMs, tick_hz)} :
        /\ knob_hist.uptime_ms + ticks * portTICK_PERIOD_MS(tick_hz) <= MaxKnobMs
        /\ tick_count' = U32Plus(tick_count, U32OfNat(ticks))
        /\ knob_hist' = [KnobQuiet EXCEPT
                           !.uptime_ms = @ + ticks * portTICK_PERIOD_MS(tick_hz)]
    /\ fn' = "vTaskDelay"
    /\ ret' = "none"
    /\ event' = ZeroEvent
    /\ UNCHANGED <<pc, knob>>
    /\ KnobFrame

KnobBoot ==
    /\ tick_hz \in TickRates
    /\ now = 0
    /\ fn = "none"
    /\ pc = "idle"
    /\ dev = ZeroDev
    /\ sample_ok = TRUE
    /\ timeout_ms = 0
    /\ poll_interval_ms = 0
    /\ conversion_wait_ms = 0
    /\ start_us = 0
    /\ elapsed_us = 0
    /\ status = 0
    /\ raw = ZeroRaw
    /\ sample = ZeroSample
    /\ ret = "none"
    /\ log = <<>>
    /\ entry_sample = ZeroSample
    /\ err_src = "none"
    /\ read_us = 0
    /\ filter = ZeroFilter
    /\ filter_ok = TRUE
    /\ alpha = 0
    /\ input = ZeroSample
    /\ input_ok = TRUE
    /\ output = ZeroSample
    /\ output_ok = TRUE
    /\ temperature_offset_c = 0
    /\ humidity_offset_rh = 0
    /\ n_calls = 0
    /\ entry_filter = ZeroFilter
    /\ entry_output = ZeroSample
    /\ last_input = ZeroSample
    /\ last_offset = NoOffsetCall
    /\ twin = ZeroFilter
    /\ app = ZeroWindow
    /\ knob = ZeroKnob
    /\ event = ZeroEvent
    /\ tick_count \in KnobBootTicks(tick_hz)
    /\ knob_hist = NoKnobHistory

KnobNext ==
    \/ knob_init
    \/ knob_poll
    \/ knob_set_position
    \/ KnobSleep

SpecKnob == KnobBoot /\ [][KnobNext]_vars

\* ------------------------------------------------------------------------
\* Properties of the frame decoder (checked under SpecParse)
\* ------------------------------------------------------------------------
\* bit 7 of the status byte, by arithmetic on the byte
BusyBit(r) == (r[1] \div 128) % 2 = 1

\* the seventh byte is the checksum of the first six
ChecksumOk(r) == r[7] = dht20_crc8(r, 6)

\* C4: a frame whose status byte has bit 7 set decodes to NotReady
\* (ESP_ERR_INVALID_STATE), whatever its other bytes and its checksum byte.
C4_BusyIsNotReady ==
    (pc = "parsed" /\ BusyBit(raw)) => ret = "ESP_ERR_INVALID_STATE"

\* a busy frame with a correct checksum has been decoded to NotReady
C4_Witness ==
    /\ pc = "parsed"
    /\ BusyBit(raw)
    /\ ChecksumOk(raw)
    /\ ret = "ESP_ERR_INVALID_STATE"

\* C5 as stated: every frame with a wrong seventh byte decodes to
\* ChecksumError (ESP_ERR_INVALID_CRC), busy bit set or clear.
C5_Original ==
    (pc = "parsed" /\ ~ChecksumOk(raw)) => ret = "ESP_ERR_INVALID_CRC"

\* C5 amended: a frame with a wrong seventh byte decodes to ChecksumError when
\* its busy bit is clear and to NotReady when it is set; either way it is not
\* accepted: the result is not success and the caller's sample is unchanged.
C5_BadChecksumRejected ==
    (pc = "parsed" /\ ~ChecksumOk(raw)) =>
        /\ ret = (IF BusyBit(raw) THEN "ESP_ERR_INVALID_STATE"
                  ELSE "ESP_ERR_INVALID_CRC")
        /\ sample = entry_sample

\* a frame with the busy bit clear and a wrong checksum has been refused,
\* with a sample of an earlier decode in the caller's hands
C5_Witness ==
    /\ pc = "parsed"
    /\ ~BusyBit(raw)
    /\ ~ChecksumOk(raw)
    /\ ret = "ESP_ERR_INVALID_CRC"
    /\ sample # ZeroSample

\* C6: a frame with the busy bit clear and a correct checksum decodes
\* successfully, to raw humidity (b1<<12)|(b2<<4)|(b3>>4) and raw temperature
\* ((b3&0x0F)<<16)|(b4<<8)|b5 (the fields are disjoint, so | is +), both
\* below 2^20.
C6_RawCounts ==
    (pc = "parsed" /\ ~BusyBit(raw) /\ ChecksumOk(raw)) =>
        /\ ret = "ESP_OK"
        /\ sample.humidity_raw
             = raw[2] * 4096 + raw[3] * 16 + (raw[4] \div 16)
        /\ sample.temperature_raw
             = (raw[4] % 16) * 65536 + raw[5] * 256 + raw[6]
        /\ sample.humidity_raw < 1048576
        /\ sample.temperature_raw < 1048576

\* a valid frame whose byte 3 contributes to both counts has been decoded
C6_Witness ==
    /\ pc = "parsed"
    /\ ret = "ESP_OK"
    /\ raw[4] = 106
    /\ sample.humidity_raw > 0
    /\ sample.temperature_raw > 655360

\* ------------------------------------------------------------------------
\* Properties of the driver's calls (checked under Spec)
\* ------------------------------------------------------------------------
\* the functions that hand a sample to the caller
ReadFns == {"dht20_read_measurement", "dht20_read_measurement_wait",
            "dht20_read_oneshot", "dht20_read"}

\* the functions that run the poll loop
PollFns == {"dht20_read_measurement_wait", "dht20_read_oneshot"}

\* the positions of the frame read attempts in the log
ReadIdx == {i \in 1..Len(log) : log[i].k = "read" /\ log[i].arg = <<7>>}

\* the bus transactions of the log that failed
FailedIdx == {i \in 1..Len(log) : log[i].res # "ESP_OK"}

\* attempt i read a frame from the bus and its busy bit was set
BusyAttempt(i) == log[i].res = "ESP_OK" /\ log[i].dec = "ESP_ERR_INVALID_STATE"

\* C1 as stated: in the poll loop a read attempt is followed by another one
\* only if it decoded a frame with the busy bit set; an attempt that ends in
\* ChecksumError or in a bus error is the last one, and the poll returns
\* that error.
C1_OnlyBusyIsRetried ==
    fn \in PollFns =>
        \A i \in ReadIdx :
            /\ i < Len(log) => BusyAttempt(i)
            /\ (log[i].res # "ESP_OK" \/ log[i].dec = "ESP_ERR_INVALID_CRC") =>
                    /\ i = Len(log)
                    /\ pc = "idle"
                    /\ ret = (IF log[i].res # "ESP_OK" THEN log[i].res
                              ELSE "ESP_ERR_INVALID_CRC")

\* C2 as stated: with every attempt busy and a positive poll interval, Timeout
\* is returned with the elapsed time at least T and at most T plus one poll
\* interval.
C2_Original ==
    ( /\ fn \in PollFns
      /\ pc = "idle"
      /\ ret = "ESP_ERR_TIMEOUT"
      /\ err_src = "poll"
      /\ poll_interval_ms > 0
      /\ \A i \in ReadIdx : BusyAttempt(i) ) =>
        /\ elapsed_us >= timeout_ms * 1000
        /\ elapsed_us <= timeout_ms * 1000 + poll_interval_ms * 1000

\* C2 amended: with every attempt busy and a positive poll interval, Timeout
\* is returned with the elapsed time at least T, and less than T plus one
\* poll interval plus the time the last read attempt took on the bus.
C2_TimeoutWindow ==
    ( /\ fn \in PollFns
      /\ pc = "idle"
      /\ ret = "ESP_ERR_TIMEOUT"
      /\ err_src = "poll"
      /\ poll_interval_ms > 0
      /\ \A i \in ReadIdx : BusyAttempt(i) ) =>
        /\ elapsed_us >= timeout_ms * 1000
        /\ elapsed_us < timeout_ms * 1000 + poll_interval_ms * 1000 + read_us

\* the poll loop has slept at least once between busy attempts and then
\* returned Timeout
C2_Witness ==
    /\ fn = "dht20_read_measurement_wait"
    /\ pc = "idle"
    /\ ret = "ESP_ERR_TIMEOUT"
    /\ err_src = "poll"
    /\ poll_interval_ms > 0
    /\ timeout_ms > 0
    /\ Cardinality(ReadIdx) >= 2
    /\ \A i \in ReadIdx : BusyAttempt(i)
    /\ \E i \in 1..Len(log) : log[i].k = "sleep" /\ log[i].arg # <<0>>

\* C3 as stated: a failure of the bus during one of the read functions ends
\* the call and is what the call returns, and the value returned is neither
\* the one that means NotReady nor the one that means Timeout.
C3_BusErrorsAreDistinct ==
    fn \in ReadFns =>
        \A i \in FailedIdx :
            /\ i = Len(log)
            /\ pc = "idle"
            /\ ret = log[i].res
            /\ ret \notin {"ESP_ERR_INVALID_STATE", "ESP_ERR_TIMEOUT"}

\* C7: a read function that has not returned success has left the caller's
\* sample as it was when the call began (also while the call is still
\* running); one that returned success has written all five fields from the
\* frame it read last, stamped with the clock at that moment.
C7_SampleAllOrNothing ==
    fn \in ReadFns =>
        /\ (pc # "idle" \/ ret # "ESP_OK") => sample = entry_sample
        /\ (pc = "idle" /\ ret = "ESP_OK") =>
            /\ sample.timestamp_us = now
            /\ sample.humidity_raw
                 = raw[2] * 4096 + raw[3] * 16 + (raw[4] \div 16)
            /\ sample.temperature_raw
                 = (raw[4] % 16) * 65536 + raw[5] * 256 + raw[6]
            /\ sample.humidity_rh = HumidityRh(sample.humidity_raw)
            /\ sample.temperature_c = TemperatureC(sample.temperature_raw)

\* a read has failed on a checksum while the caller held the sample of an
\* earlier successful read
C7_Witness ==
    /\ fn \in ReadFns
    /\ pc = "idle"
    /\ ret = "ESP_ERR_INVALID_CRC"
    /\ entry_sample # ZeroSample
    /\ sample = entry_sample

\* what a log entry did, without its result
Shape(e) == <<e.k, e.arg>>

\* the steps of dht20_init up to the status read
InitBasePlan ==
    << <<"sleep", <<(100 * tick_hz) \div 1000>>>>,
       <<"write", <<186>>>>,
       <<"sleep", <<(20 * tick_hz) \div 1000>>>>,
       <<"write", <<113>>>>,
       <<"read", <<1>>>> >>

\* the calibration command and its settle wait
InitCalPlan ==
    << <<"write", <<190, 8, 0>>>>,
       <<"sleep", <<(10 * tick_hz) \div 1000>>>> >>

\* the status read has succeeded and bit 3 of the status byte is clear
InitSawUncalibrated ==
    /\ Len(log) >= 5
    /\ log[5].res = "ESP_OK"
    /\ (status \div 8) % 2 = 0

\* the steps dht20_init is to perform, given the status byte it read
InitPlan == IF InitSawUncalibrated THEN InitBasePlan \o InitCalPlan ELSE InitBasePlan

\* C8: what dht20_init has done so far is always a prefix of: power-up wait,
\* soft-reset write, reset wait, status command write, status read, and then,
\* if and only if bit 3 of the status byte is clear, calibration command
\* write and settle wait; when it returns success it has done all of it, and
\* it has written the calibration command at most once.
C8_InitOrder ==
    fn = "dht20_init" =>
        /\ Len(log) <= Len(InitPlan)
        /\ \A i \in 1..Len(log) : Shape(log[i]) = InitPlan[i]
        /\ (pc = "idle" /\ ret = "ESP_OK") => Len(log) = Len(InitPlan)
        /\ Cardinality({i \in 1..Len(log) : log[i].arg = <<190, 8, 0>>}) <= 1

\* dht20_init has returned success after calibrating
C8_Witness ==
    /\ fn = "dht20_init"
    /\ pc = "idle"
    /\ ret = "ESP_OK"
    /\ Len(log) = 7
    /\ log[6].arg = <<190, 8, 0>>

\* C9: a bus transaction of dht20_init that failed is the last thing the call
\* did, and the call has returned that transaction's error; dht20_init
\* returns an error only in that way or for a NULL device.
C9_InitAbortsOnBusError ==
    fn = "dht20_init" =>
        /\ \A i \in FailedIdx :
            /\ i = Len(log)
            /\ pc = "idle"
            /\ ret = log[i].res
        /\ (pc = "idle" /\ ret # "ESP_OK" /\ Len(log) > 0) => Len(log) \in FailedIdx

\* the status read of dht20_init has failed and the call has returned
C9_Witness ==
    /\ fn = "dht20_init"
    /\ pc = "idle"
    /\ Len(log) = 5
    /\ log[5].res = "ESP_FAIL"
    /\ ret = "ESP_FAIL"

\* what the poll loop returns after the attempts in l, the last of which
\* ended it
PollOutcome(l) ==
    LET last == l[Len(l)]
        err  == IF last.res # "ESP_OK" THEN last.res ELSE last.dec
    IN  IF err = "ESP_ERR_INVALID_STATE" THEN "ESP_ERR_TIMEOUT" ELSE err

\* C10: dht20_read_oneshot, unless it refuses a NULL device at once, writes
\* the trigger command first and only once, and reads frames only after it;
\* if that write fails it returns the error
\* with nothing else done; otherwise it returns what the poll loop returns:
\* InvalidArgument for a NULL sample, else the outcome of the last attempt,
\* which is also what dht20_read_measurement_wait returns.
C10_OneshotTriggersThenPolls ==
    /\ fn = "dht20_read_oneshot" =>
        /\ (pc = "idle" /\ Len(log) = 0) => ret = "ESP_ERR_INVALID_ARG"
        /\ Len(log) >= 1 => Shape(log[1]) = <<"write", <<172, 51, 0>>>>
        /\ \A i \in 2..Len(log) : log[i].k # "write"
        /\ (Len(log) >= 1 /\ log[1].res # "ESP_OK") =>
                Len(log) = 1 /\ pc = "idle" /\ ret = log[1].res
        /\ (pc = "idle" /\ Len(log) >= 1 /\ log[1].res = "ESP_OK") =>
                IF ~sample_ok
                THEN Len(log) = 1 /\ ret = "ESP_ERR_INVALID_ARG"
                ELSE /\ log[Len(log)].k = "read"
                     /\ ret = PollOutcome(log)
                     /\ ret = "ESP_ERR_TIMEOUT" /\ err_src = "poll"
                            => elapsed_us >= timeout_ms * 1000
    /\ (fn = "dht20_read_measurement_wait" /\ pc = "idle" /\ Len(log) >= 1) =>
        /\ log[Len(log)].k = "read"
        /\ ret = PollOutcome(log)
        /\ ret = "ESP_ERR_TIMEOUT" /\ err_src = "poll"
               => elapsed_us >= timeout_ms * 1000

\* a oneshot call has triggered, found the sensor busy, slept, read again
\* and returned the sample
C10_Witness ==
    /\ fn = "dht20_read_oneshot"
    /\ pc = "idle"
    /\ ret = "ESP_OK"
    /\ Len(log) >= 4
    /\ log[2].k = "read"

\* ------------------------------------------------------------------------
\* Properties of the fixed-delay read (checked under Spec)
\* ------------------------------------------------------------------------
\* the steps of dht20_read: the trigger write, the conversion wait when the
\* caller asked for one, and the frame read
ReadPlan ==
    << <<"write", <<172, 51, 0>>>> >>
    \o (IF conversion_wait_ms > 0
        THEN << <<"sleep", <<(conversion_wait_ms * tick_hz) \div 1000>>>> >>
        ELSE << >>)
    \o << <<"read", <<7>>>> >>

\* what one read attempt gave: the bus error, else what the decoder said
AttemptResult(e) == IF e.res # "ESP_OK" THEN e.res ELSE e.dec

\* C11: what dht20_read has done is always a prefix of: trigger write, fixed
\* conversion wait, one frame read; it never reads a second frame, never
\* sleeps a poll interval and never returns the poll loop's Timeout. When it
\* has read a frame it has returned and the value is that attempt's result
\* (success, NotReady, ChecksumError or the bus error); it returns without a
\* read only when the trigger write failed or a pointer was NULL.
C11_LegacyReadSingleAttempt ==
    fn = "dht20_read" =>
        /\ Len(log) <= Len(ReadPlan)
        /\ \A i \in 1..Len(log) : Shape(log[i]) = ReadPlan[i]
        /\ Cardinality(ReadIdx) <= 1
        /\ pc # "wait_delay"
        /\ err_src # "poll"
        /\ \A i \in ReadIdx :
            /\ i = Len(log)
            /\ pc = "idle"
            /\ ret = AttemptResult(log[i])
        /\ (pc = "idle" /\ ReadIdx = {}) =>
            \/ ret = "ESP_ERR_INVALID_ARG" /\ err_src = "arg"
            \/ Len(log) = 1 /\ log[1].res # "ESP_OK" /\ ret = log[1].res

\* dht20_read has triggered, waited, read a frame of a busy sensor once and
\* returned NotReady
C11_Witness ==
    /\ fn = "dht20_read"
    /\ pc = "idle"
    /\ conversion_wait_ms > 0
    /\ Len(log) = 3
    /\ log[3].res = "ESP_OK"
    /\ log[3].dec = "ESP_ERR_INVALID_STATE"
    /\ ret = "ESP_ERR_INVALID_STATE"

\* ------------------------------------------------------------------------
\* Properties of the poll loop's sleeps and of its termination
\* ------------------------------------------------------------------------
\* the positions of the sleeps in the log
SleepIdx == {i \in 1..Len(log) : log[i].k = "sleep"}

\* C12 as stated: in dht20_read_measurement_wait every read attempt that is
\* followed by anything is followed by a sleep and then by the next attempt;
\* each such sleep is at least one tick long, and as long as the poll
\* interval the caller asked for when that is not zero.
C12_SleepsPollInterval ==
    fn = "dht20_read_measurement_wait" =>
        /\ \A i \in ReadIdx : i < Len(log) => (i + 1) \in SleepIdx
        /\ \A i \in SleepIdx :
            /\ i < Len(log) => (i + 1) \in ReadIdx
            /\ log[i].arg[1] >= 1
            /\ poll_interval_ms > 0 =>
                 log[i].arg[1] * (1000000 \div tick_hz) = poll_interval_ms * 1000

\* the scheduler runs the calling task again after every vTaskDelay and every
\* I2C transaction comes back (within i2c_timeout_ms): no step of a call
\* that has begun is put off forever
SpecFair ==
    /\ Init
    /\ [][Next]_vars
    /\ WF_vars(MeasRead)
    /\ WF_vars(WaitDelay)

\* the last attempt of the log reported NotReady
LastNotReady ==
    /\ Len(log) >= 1
    /\ log[Len(log)].k = "read"
    /\ AttemptResult(log[Len(log)]) = "ESP_ERR_INVALID_STATE"

\* the poll loop is running
Polling == fn = "dht20_read_measurement_wait" /\ pc # "idle"

\* a call of the poll loop has returned
Polled == fn = "dht20_read_measurement_wait" /\ pc = "idle"

\* what ends a run of NotReady results: after a NotReady attempt the loop
\* goes on unless the timeout has elapsed, and then it returns Timeout; it
\* returns Timeout in no other way
TimeoutEndsNotReady ==
    fn = "dht20_read_measurement_wait" =>
        /\ (LastNotReady /\ pc = "idle") =>
            /\ ret = "ESP_ERR_TIMEOUT"
            /\ err_src = "poll"
            /\ now - start_us >= timeout_ms * 1000
        /\ (LastNotReady /\ pc # "idle") =>
            /\ pc = "wait_delay"
            /\ elapsed_us < timeout_ms * 1000
        /\ (pc = "idle" /\ err_src = "poll") => LastNotReady

\* C13: every call of dht20_read_measurement_wait returns, whatever the
\* timeout and the outcomes of the read attempts, and a run of NotReady
\* results is ended by the timeout alone: after a NotReady attempt the loop
\* goes on while less than the timeout has elapsed and returns Timeout once
\* it has.
C13_PollTerminates ==
    /\ [](TimeoutEndsNotReady)
    /\ (Polling ~> Polled)

\* the poll loop has gone through at least three NotReady attempts and has
\* then returned Timeout
C13_Witness ==
    /\ Polled
    /\ ret = "ESP_ERR_TIMEOUT"
    /\ err_src = "poll"
    /\ Cardinality(ReadIdx) >= 3
    /\ \A i \in ReadIdx : AttemptResult(log[i]) = "ESP_ERR_INVALID_STATE"

\* ------------------------------------------------------------------------
\* Properties of the calibration offset (checked under SpecOffset)
\* ------------------------------------------------------------------------
\* h is a humidity from 0 to 100 percent
InHumidityRange(h) == F32Le(F32_0, h) /\ F32Le(h, F32_100)

\* the last call was a dht20_sample_apply_offset that returned success
OffsetApplied == fn = "dht20_sample_apply_offset" /\ ret = "ESP_OK"

\* C15 as stated: the humidity of the decoded sample and of every sample
\* dht20_sample_apply_offset has written is between 0 and 100, whatever the
\* offsets; the temperature is left as the addition gives it.
C15_HumidityInRange ==
    /\ InHumidityRange(sample.humidity_rh)
    /\ OffsetApplied =>
         sample.temperature_c
           = F32Add[entry_sample.temperature_c, temperature_offset_c]

\* humidity + humidity_offset_rh as the call computed it
OffsetSum == F32Add[entry_sample.humidity_rh, humidity_offset_rh]

\* C16: a successful dht20_sample_apply_offset has set temperature to the
\* float sum temperature + offset, above 150 degrees or infinite as it may
\* be, and humidity to 0 where humidity + offset is below 0, to 100 where it
\* is above 100 and to the sum itself in between; from 99 percent with
\* offset +5 it has made exactly 100, from 2 percent with offset -5 exactly
\* 0; raw counts and timestamp are as before the call; with a NULL sample
\* it fails and nothing is written.
C16_OffsetClamped ==
    /\ OffsetApplied =>
        /\ sample.temperature_c
             = F32Add[entry_sample.temperature_c, temperature_offset_c]
        /\ F32Lt(OffsetSum, F32_0) => sample.humidity_rh = F32_0
        /\ F32Gt(OffsetSum, F32_100) => sample.humidity_rh = F32_100
        /\ InHumidityRange(OffsetSum) => sample.humidity_rh = OffsetSum
        /\ (entry_sample.humidity_rh = F32Lit(99, 0)
              /\ humidity_offset_rh = F32Lit(5, 0)) => sample.humidity_rh = F32_100
        /\ (entry_sample.humidity_rh = F32Lit(2, 0)
              /\ humidity_offset_rh = 0 - F32Lit(5, 0)) => sample.humidity_rh = F32_0
        /\ sample.humidity_raw = entry_sample.humidity_raw
        /\ sample.temperature_raw = entry_sample.temperature_raw
        /\ sample.timestamp_us = entry_sample.timestamp_us
    /\ (fn = "dht20_sample_apply_offset" /\ ~sample_ok) =>
        /\ ret = "ESP_ERR_INVALID_ARG"
        /\ sample = entry_sample

\* a sample of 99 percent has been offset by +5 and holds exactly 100, while
\* its temperature has been taken beyond the 150 degrees of the conversion's
\* range and left there
C16_Witness ==
    /\ OffsetApplied
    /\ entry_sample.humidity_rh = F32Lit(99, 0)
    /\ humidity_offset_rh = F32Lit(5, 0)
    /\ sample.humidity_rh = F32_100
    /\ F32Gt(sample.temperature_c, F32Lit(150, 0))

\* the last two calls were successful dht20_sample_apply_offset calls with
\* the same offsets: last_offset.before is the sample before the first,
\* entry_sample the sample after one application, sample after two
OffsetTwice ==
    /\ OffsetApplied
    /\ last_offset.applied
    /\ last_offset.temperature_offset_c = temperature_offset_c
    /\ last_offset.humidity_offset_rh = humidity_offset_rh

HumiditySettled ==
    \/ humidity_offset_rh = F32_0
    \/ F32IsNaN(humidity_offset_rh)
    \/ F32IsNaN(entry_sample.humidity_rh)
    \/ F32Gt(humidity_offset_rh, F32_0) /\ entry_sample.humidity_rh = F32_100
    \/ F32Lt(humidity_offset_rh, F32_0) /\ entry_sample.humidity_rh = F32_0

\* the second application cannot move the temperature: the offset is zero,
\* the temperature is a NaN, or it is infinite and the offset is not the
\* opposite infinity
TemperatureSettled ==
    \/ temperature_offset_c = F32_0
    \/ F32IsNaN(entry_sample.temperature_c)
    \/ /\ F32IsInf(entry_sample.temperature_c)
       /\ temperature_offset_c # 0 - entry_sample.temperature_c

FilterApplied == fn = "dht20_filter_apply" /\ ret = "ESP_OK"

\* C14: the first dht20_filter_apply after dht20_filter_init or
\* dht20_filter_reset returns the input sample as its output, temperature
\* and humidity included, and the filter's smoothed values are those of the
\* input, whatever values the filter held before.
C14_FirstApplySeeds ==
    (FilterApplied /\ ~entry_filter.initialized) =>
        /\ output = input
        /\ filter.initialized
        /\ filter.temperature_c = input.temperature_c
        /\ filter.humidity_rh = input.humidity_rh
        /\ filter.alpha = entry_filter.alpha

\* a first call after a reset, on a filter that still held the smoothed
\* values of another sample
C14_Witness ==
    /\ FilterApplied
    /\ ~entry_filter.initialized
    /\ entry_filter.temperature_c # F32_0
    /\ entry_filter.temperature_c # input.temperature_c
    /\ entry_filter.humidity_rh # input.humidity_rh
    /\ entry_filter.alpha # F32_1

\* alpha is a number greater than 0 and at most 1; the floats are ordered as
\* their codes, the infinities and the NaN lie outside
InUnitInterval(a) == a > 0 /\ a <= F32_1

\* C18: dht20_filter_init returns ESP_ERR_INVALID_ARG and leaves the filter
\* as it was when alpha is not finite or not in (0,1] (or the filter is
\* NULL); for every alpha in (0,1] it returns ESP_OK, stores alpha and leaves
\* the filter not initialized.
C18_FilterInitContract ==
    (fn = "dht20_filter_init") =>
        IF filter_ok /\ InUnitInterval(alpha)
        THEN /\ ret = "ESP_OK"
             /\ filter.alpha = alpha
             /\ ~filter.initialized
        ELSE /\ ret = "ESP_ERR_INVALID_ARG"
             /\ filter = entry_filter

\* an alpha refused on a filter that is in use
C18_Witness ==
    /\ fn = "dht20_filter_init"
    /\ filter_ok
    /\ ~InUnitInterval(alpha)
    /\ alpha # entry_filter.alpha
    /\ entry_filter.initialized
    /\ ret = "ESP_ERR_INVALID_ARG"

\* C19: with alpha = 1.0 the output of every dht20_filter_apply has the
\* temperature and the humidity of its input, on the first call and on all
\* the later ones.
C19_AlphaOnePassThrough ==
    (FilterApplied /\ filter.alpha = F32_1) =>
        /\ output.temperature_c = input.temperature_c
        /\ output.humidity_rh = input.humidity_rh

\* v lies between from and to, the ends included
F32Between(from, v, to) ==
    /\ ~F32IsNaN(v)
    /\ \/ F32Le(from, v) /\ F32Le(v, to)
       \/ F32Le(to, v) /\ F32Le(v, from)

\* the same sample as in the call before, and all the values finite
SameInputAgain ==
    /\ FilterApplied
    /\ entry_filter.initialized
    /\ input = last_input
    /\ F32Lt(filter.alpha, F32_1)
    /\ F32IsFinite(input.temperature_c)
    /\ F32IsFinite(entry_output.temperature_c)
    /\ F32IsFinite(entry_output.humidity_rh)

\* C20: for 0 < alpha < 1, when the sample of the previous call is fed
\* again, the output is no farther from the input than the previous output
\* and not on the other side of it: it lies between the previous output and
\* the input, for the temperature and for the humidity.
C20_ConstantInputApproaches ==
    SameInputAgain =>
        /\ F32Between(entry_output.temperature_c, output.temperature_c,
                      input.temperature_c)
        /\ F32Between(entry_output.humidity_rh, output.humidity_rh,
                      input.humidity_rh)

\* C21: dht20_filter_reset changes only the initialized flag: alpha and the
\* two smoothed values are after the reset what they were before it, and a
\* reset of a filter that is not initialized (or of NULL) changes nothing.
C21_ResetClearsOnlyFlag ==
    (fn = "dht20_filter_reset") =>
        /\ ~filter_ok => filter = entry_filter
        /\ filter_ok =>
            /\ ~filter.initialized
            /\ filter.alpha = entry_filter.alpha
            /\ filter.humidity_rh = entry_filter.humidity_rh
            /\ filter.temperature_c = entry_filter.temperature_c
        /\ ~entry_filter.initialized => filter = entry_filter
        /\ output = entry_output

\* a reset of a filter in use that holds smoothed values other than zero
C21_Witness ==
    /\ fn = "dht20_filter_reset"
    /\ filter_ok
    /\ entry_filter.initialized
    /\ ~filter.initialized
    /\ filter.humidity_rh # F32_0
    /\ filter.temperature_c # F32_0

\* C22: the alpha of a filter changes only in a dht20_filter_init that
\* returns ESP_OK, and then to the alpha passed: dht20_filter_apply,
\* dht20_filter_reset and a refused dht20_filter_init leave it as it is.
C22_AlphaChangesOnlyInInit ==
    [][ \/ filter'.alpha = filter.alpha
        \/ /\ fn' = "dht20_filter_init"
           /\ ret' = "ESP_OK"
           /\ filter'.alpha = alpha' ]_vars

\* alpha 0.5 is still in place after a sample, a refused dht20_filter_init
\* with another alpha and a reset
C22_Witness ==
    /\ fn = "dht20_filter_reset"
    /\ filter_ok
    /\ entry_filter.initialized
    /\ filter.alpha = F32Lit(1, 0 - 1)
    /\ alpha # filter.alpha

\* C28: what a filter has accumulated before a dht20_filter_reset does not
\* show afterwards: every output of the filter equals the output of the twin,
\* a filter of the same alpha that was reset with no sample behind it and is
\* fed the same inputs since. Any two filters of one alpha agree with the
\* same twin, and so with each other.
C28_ResetHidesHistory ==
    FilterApplied =>
        /\ output = FilterOutput(twin, input)
        /\ filter.initialized = twin.initialized
        /\ filter.humidity_rh = twin.humidity_rh
        /\ filter.temperature_c = twin.temperature_c

\* the first sample after a reset, the filter still holding the smoothed
\* humidity of another sample and the twin holding none
C28_Witness ==
    /\ FilterApplied
    /\ ~entry_filter.initialized
    /\ F32Lt(filter.alpha, F32_1)
    /\ entry_filter.humidity_rh # F32_0
    /\ entry_filter.humidity_rh # input.humidity_rh
    /\ twin.humidity_rh = input.humidity_rh
    /\ output.humidity_rh = input.humidity_rh

\* ------------------------------------------------------------------------
\* Further properties of the driver calls (checked under Spec)
\* ------------------------------------------------------------------------
\* C23: dht20_start_measurement makes one bus write, of the three bytes
\* 0xAC 0x33 0x00, and returns the result of that write; it reads nothing and
\* does not sleep, so it does not wait for the conversion. With a NULL device
\* it returns ESP_ERR_INVALID_ARG and writes nothing.
C23_StartIsOneWrite ==
    (fn = "dht20_start_measurement") =>
        /\ pc \in {"idle", "trig_write"}
        /\ pc = "trig_write" => log = <<>>
        /\ (pc = "idle" /\ err_src = "arg") =>
              log = <<>> /\ ret = "ESP_ERR_INVALID_ARG"
        /\ (pc = "idle" /\ err_src # "arg") =>
              /\ Len(log) = 1
              /\ log[1].k = "write"
              /\ log[1].arg = <<172, 51, 0>>
              /\ ret = log[1].res
        /\ sample = entry_sample

\* the trigger has been written and acknowledged, and the call has returned
C23_Witness ==
    /\ fn = "dht20_start_measurement"
    /\ pc = "idle"
    /\ ret = "ESP_OK"
    /\ Len(log) = 1
    /\ log[1].arg = <<172, 51, 0>>

\* the sensor operations
SensorFns ==
    {"dht20_init", "dht20_soft_reset", "dht20_start_measurement",
     "dht20_read_measurement", "dht20_read_measurement_wait",
     "dht20_read_oneshot", "dht20_read"}

\* C29: a sensor operation that returns ESP_ERR_INVALID_ARG has made no bus
\* transaction and no sleep and has changed no state; so dht20_read_oneshot
\* and dht20_read with a device and a NULL sample do not write the trigger.
C29_InvalidArgHasNoEffect ==
    (fn \in SensorFns /\ pc = "idle" /\ ret = "ESP_ERR_INVALID_ARG") =>
        /\ log = <<>>
        /\ sample = entry_sample

\* the attempt logged at i came back NotReady (ESP_ERR_INVALID_STATE)
NotReadyAttempt(i) == AttemptResult(log[i]) = "ESP_ERR_INVALID_STATE"

\* C30: dht20_read_measurement_wait makes a read attempt before it can
\* return, and returns ESP_ERR_TIMEOUT from the loop only right after an
\* attempt that came back NotReady. With timeout 0 it makes exactly one
\* attempt and does not sleep: a ready frame gives the result of that
\* attempt (ESP_OK for a good frame), a busy one ESP_ERR_TIMEOUT.
C30_AttemptBeforeTimeout ==
    (fn = "dht20_read_measurement_wait" /\ pc = "idle" /\ err_src # "arg") =>
        /\ Len(log) >= 1
        /\ log[1].k = "read"
        /\ (ret = "ESP_ERR_TIMEOUT" /\ err_src = "poll") =>
              NotReadyAttempt(Len(log))
        /\ timeout_ms = 0 =>
            /\ Len(log) = 1
            /\ ret = IF NotReadyAttempt(1) THEN "ESP_ERR_TIMEOUT"
                     ELSE AttemptResult(log[1])
            /\ BusyAttempt(1) => (ret = "ESP_ERR_TIMEOUT" /\ err_src = "poll")
            /\ (log[1].res = "ESP_OK" /\ log[1].dec = "ESP_OK") => ret = "ESP_OK"

\* timeout 0 and a busy sensor: ESP_ERR_TIMEOUT after one attempt, no sleep
C30_Witness ==
    /\ fn = "dht20_read_measurement_wait"
    /\ pc = "idle"
    /\ timeout_ms = 0
    /\ ret = "ESP_ERR_TIMEOUT"
    /\ err_src = "poll"
    /\ Len(log) = 1
    /\ BusyAttempt(1)

\* ------------------------------------------------------------------------
\* Properties of the conversion and the checksum
\* ------------------------------------------------------------------------
\* the float nearest to n / 2^20, n below 2^31
F32OfRatio(n) == F32RoundPack[n \div 16777216, n % 16777216, 0 - 20]

\* C24: the conversion is the linear map raw*100/2^20 and raw*200/2^20 - 50:
\* the humidity is the float nearest to raw*100/2^20, count 0 gives 0.0 %RH
\* and -50.0 C, count 2^20 gives exactly 100.0 %RH and 150.0 C, a count one
\* higher gives a higher humidity and a higher temperature, and every count
\* a frame can carry (below 2^20) gives a humidity in [0,100) and a
\* temperature in [-50,150).
C24_LinearConversion ==
    (pc = "convert") =>
        /\ sample.humidity_rh = F32OfRatio(sample.humidity_raw * 100)
        /\ sample.temperature_c =
              F32Sub(F32OfRatio(sample.temperature_raw * 200), F32Lit(50, 0))
        /\ sample.humidity_raw = 0 => sample.humidity_rh = 0
        /\ sample.temperature_raw = 0 => sample.temperature_c = 0 - F32Lit(50, 0)
        /\ sample.humidity_raw = RawLimit => sample.humidity_rh = F32Lit(100, 0)
        /\ sample.temperature_raw = RawLimit => sample.temperature_c = F32Lit(150, 0)
        /\ sample.humidity_raw = entry_sample.humidity_raw + 1 =>
              /\ entry_sample.humidity_rh < sample.humidity_rh
              /\ entry_sample.temperature_c < sample.temperature_c
        /\ sample.humidity_raw < RawLimit =>
              /\ 0 <= sample.humidity_rh
              /\ sample.humidity_rh < F32Lit(100, 0)
              /\ 0 - F32Lit(50, 0) <= sample.temperature_c
              /\ sample.temperature_c < F32Lit(150, 0)

\* the highest count a frame carries has been converted, after the count
\* below it: both values are below the end of the range
C24_Witness ==
    /\ pc = "convert"
    /\ sample.humidity_raw = RawLimit - 1
    /\ entry_sample.humidity_raw = RawLimit - 2
    /\ entry_sample.humidity_rh < sample.humidity_rh
    /\ sample.humidity_rh < F32Lit(100, 0)
    /\ sample.temperature_c < F32Lit(150, 0)

\* bit j of the message the checksum divides, the highest bit of byte 0
\* first: the bytes, the first of them inverted (initial value 0xFF), and
\* eight zero bits after them
Crc8MessageBit(data, len, j) ==
    IF j >= 8 * len THEN 0
    ELSE LET byte == IF j < 8 THEN 255 - data[1] ELSE data[(j \div 8) + 1]
         IN  (byte \div (2 ^ (7 - (j % 8)))) % 2

\* one step of the division by x^8 + x^5 + x^4 + 1 (0x131): the next bit is
\* shifted in and the divisor subtracted where the remainder reaches x^8
Crc8Divide[r \in Nat, b \in Nat] ==
    IF 2 * r + b >= 256 THEN BitXor(2 * r + b, 305) ELSE 2 * r + b

\* the remainder of the message divided by the polynomial
Crc8Reference(data, len) ==
    LET rem[j \in 0..(8 * len + 8)] ==
            IF j = 0 THEN 0
            ELSE Crc8Divide[rem[j - 1], Crc8MessageBit(data, len, j - 1)]
    IN  rem[8 * len + 8]

\* C25: dht20_crc8 over bytes 0..5 is the CRC-8 with polynomial 0x31,
\* initial value 0xFF, the highest bit first and no final XOR: it equals the
\* remainder of the polynomial division, fits in 8 bits, gives the published
\* check values (0xF7 for "123456789", 0x92 for BE EF), and a frame that is
\* not busy is refused with ESP_ERR_INVALID_CRC exactly when byte 6 differs
\* from it.
C25_CrcIsReference ==
    (pc \in {"parse", "parsed"}) =>
        /\ dht20_crc8(raw, 6) = Crc8Reference(raw, 6)
        /\ dht20_crc8(raw, 6) \in 0..255
        /\ dht20_crc8(<<49, 50, 51, 52, 53, 54, 55, 56, 57>>, 9) = 247
        /\ dht20_crc8(<<190, 239>>, 2) = 146
        /\ (pc = "parsed" /\ ~BusyBit(raw)) =>
              (ret = "ESP_ERR_INVALID_CRC" <=> raw[7] # Crc8Reference(raw, 6))

\* a frame whose seventh byte is the reference checksum has been accepted
C25_Witness ==
    /\ pc = "parsed"
    /\ ret = "ESP_OK"
    /\ raw[7] = Crc8Reference(raw, 6)
    /\ raw[7] # 0

\* C26: the outcome of decoding a frame and, on success, the raw counts and
\* the physical values depend on the seven bytes only: they are those of a
\* decode of the same bytes into a zeroed sample at clock 0, whatever the
\* sample held and whatever the clock shows. The timestamp is the clock
\* reading, and a refused frame leaves the sample as it was.
C26_DecodeDeterministic ==
    (pc = "parsed") =>
        LET again == dht20_parse_sample(raw, ZeroSample, 0)
        IN  /\ ret = again.err
            /\ ret = "ESP_OK" =>
                  /\ sample.humidity_raw = again.sample.humidity_raw
                  /\ sample.temperature_raw = again.sample.temperature_raw
                  /\ sample.humidity_rh = again.sample.humidity_rh
                  /\ sample.temperature_c = again.sample.temperature_c
                  /\ sample.timestamp_us = now
            /\ ret # "ESP_OK" => sample = entry_sample

\* a frame decoded into a sample that held the same counts from an earlier
\* decode: the values are the same, the timestamp is the later one
C26_Witness ==
    /\ pc = "parsed"
    /\ ret = "ESP_OK"
    /\ entry_sample # ZeroSample
    /\ entry_sample.humidity_raw = sample.humidity_raw
    /\ entry_sample.temperature_raw = sample.temperature_raw
    /\ entry_sample.humidity_rh = sample.humidity_rh
    /\ entry_sample.temperature_c = sample.temperature_c
    /\ entry_sample.timestamp_us < sample.timestamp_us

\* ------------------------------------------------------------------------
\* Properties of the acquisition loop (checked under SpecApp)
\* ------------------------------------------------------------------------
\* C27: every dht20_read_measurement_wait of the loop comes after a
\* dht20_start_measurement that returned ESP_OK since the poll before it
\* (or since dht20_init): the loop does not poll for a conversion that was
\* not triggered.
C27_TriggerBeforePoll ==
    (Len(log) >= 1 /\ log[Len(log)].k = "dht20_read_measurement_wait") =>
        \E i \in 1..(Len(log) - 1) :
            /\ log[i].k = "dht20_start_measurement"
            /\ log[i].res = "ESP_OK"

\* C31: dht20_filter_apply on a filter whose alpha is not in (0,1], such as
\* a zero-filled filter no dht20_filter_init has succeeded on, returns an
\* error (ESP_ERR_INVALID_STATE when the three pointers are given) and
\* leaves the filter and the caller's output sample as they were; a call
\* that returns ESP_OK was made on a filter with alpha in (0,1].
C31_UnsetFilterRefused ==
    /\ (fn = "dht20_filter_apply" /\ ~InUnitInterval(entry_filter.alpha)) =>
          /\ ret = IF filter_ok /\ input_ok /\ output_ok
                   THEN "ESP_ERR_INVALID_STATE"
                   ELSE "ESP_ERR_INVALID_ARG"
          /\ filter = entry_filter
          /\ output = entry_output
    /\ FilterApplied => InUnitInterval(entry_filter.alpha)

\* refused on a filter that no dht20_filter_init has touched and whose
\* memory says initialized: the filter and the zeroed output are untouched
C31_Witness ==
    /\ fn = "dht20_filter_apply"
    /\ ret = "ESP_ERR_INVALID_STATE"
    /\ entry_filter.initialized
    /\ ~InUnitInterval(entry_filter.alpha)
    /\ filter = entry_filter
    /\ output = ZeroSample

\* ------------------------------------------------------------------------
\* Properties of the rotary encoder (checked under SpecKnob)
\* ------------------------------------------------------------------------
\* the place of a reading of the two lines in the cycle 00, 10, 11, 01 that
\* the lines run through when the shaft turns in the counted direction
GrayIndex(ab) == <<0, 3, 1, 2>>[ab + 1]

\* +1 for one step along the cycle, -1 for one step against it, 0 for no
\* change and for a change of both lines
QuadStep(last_ab, ab) ==
    LET d == ((GrayIndex(ab) - GrayIndex(last_ab)) + 4) % 4
    IN  IF d = 1 THEN 1 ELSE IF d = 3 THEN 0 - 1 ELSE 0

\* neither line has changed, or both have
QuadIdle(last_ab, ab) ==
    \/ ab = last_ab
    \/ (ab % 2 # last_ab % 2 /\ ab \div 2 # last_ab \div 2)

\* q is p + d, as integers
MovedBy(p, q, d) ==
    IF d = 1 THEN p < INT32_MAX /\ q = p + 1
    ELSE IF d = 0 - 1 THEN p > INT32_MIN /\ q = p - 1
    ELSE d = 0 /\ q = p

\* this step is a knob_poll on an initialized knob that returned ESP_OK
KnobPolled == knob.initialized /\ fn' = "knob_poll" /\ ret' = "ESP_OK"

\* C32: after every knob_poll on an initialized knob the accumulator lies in
\* -3..3, delta is -1, 0 or +1, the position has changed by exactly delta
\* and is the position reported; delta is +1 (-1) exactly when the
\* accumulator with this call's step reached +4 (-4), and a reading with no
\* line or with both lines changed leaves the accumulator as it was.
C32_PollAccounting ==
    [][KnobPolled =>
         /\ knob'.step_acc \in (0 - 3)..3
         /\ event'.delta \in {0 - 1, 0, 1}
         /\ MovedBy(knob.position, knob'.position, event'.delta)
         /\ event'.position = knob'.position
         /\ (event'.delta = 1)
              <=> (knob.step_acc + QuadStep(knob.last_ab, knob'.last_ab) = 4)
         /\ (event'.delta = 0 - 1)
              <=> (knob.step_acc + QuadStep(knob.last_ab, knob'.last_ab) = 0 - 4)
         /\ QuadIdle(knob.last_ab, knob'.last_ab)
              => (knob'.step_acc = knob.step_acc /\ event'.delta = 0)]_vars

\* C33: knob_poll reports clicked only together with released, and only if
\* a press was accepted since the accepted release before (or since
\* knob_init); no call reports pressed and released together; a pressed is
\* never followed by a pressed and a released never by a released.
C33_ClickAfterPress ==
    [][KnobPolled =>
         /\ event'.clicked => (event'.released /\ knob_hist.press_accepted)
         /\ ~(event'.pressed /\ event'.released)
         /\ event'.pressed => knob_hist.last_button # "pressed"
         /\ event'.released => knob_hist.last_button # "released"]_vars

\* a poll has reported a release as a click, after an accepted press
C33_Witness ==
    /\ fn = "knob_poll" /\ ret = "ESP_OK"
    /\ event.released /\ event.clicked /\ ~event.pressed
    /\ knob_hist.last_button = "released"
    /\ ~knob.pressed_latched

\* the debounce time of the knob as a number
DebounceMs(k) == k.cfg.button_debounce_ms[1] * 65536 + k.cfg.button_debounce_ms[2]

\* the milliseconds really passed since the accepted change of the button
\* level before, or since knob_init
SinceChangeMs == knob_hist.uptime_ms - knob_hist.change_at_ms

\* C34: knob_poll reports pressed or released only for a level that differs
\* from the accepted one and only when at least button_debounce_ms
\* milliseconds have passed since the accepted change before or since
\* knob_init, whether or not the millisecond counter has wrapped in between;
\* a change seen earlier gives no button event and leaves last_sw_level,
\* last_sw_change_ms and pressed_latched as they were.
C34_DebounceHolds ==
    [][KnobPolled =>
         /\ (event'.pressed \/ event'.released)
              => /\ knob_hist'.raw_sw # knob.last_sw_level
                 /\ SinceChangeMs >= DebounceMs(knob)
                 /\ knob'.last_sw_level = knob_hist'.raw_sw
         /\ (knob_hist'.raw_sw # knob.last_sw_level /\ SinceChangeMs < DebounceMs(knob))
              => /\ ~event'.pressed /\ ~event'.released /\ ~event'.clicked
                 /\ knob'.last_sw_level = knob.last_sw_level
                 /\ knob'.last_sw_change_ms = knob.last_sw_change_ms
                 /\ knob'.pressed_latched = knob.pressed_latched]_vars

\* a change of the level was accepted after the millisecond counter had
\* wrapped, counted from a change accepted before it wrapped
C34_Witness ==
    /\ fn = "knob_poll" /\ ret = "ESP_OK"
    /\ (event.pressed \/ event.released)
    /\ knob_hist.waited_ms >= DebounceMs(knob)
    /\ knob.last_sw_change_ms[1] = 0
    /\ knob.last_sw_change_ms[2] < knob_hist.waited_ms

====
